---- MODULE Spec2Model ----
(***************************************************************************)
(* Streaming Completion Controller of Geminid-Desk.                        *)
(*                                                                         *)
(*   src/src/chat.rs             Chat, Message, request_completion,        *)
(*                               request_completion_code_assist,           *)
(*                               spawn_completion, poll_flower             *)
(*   src/src/chat_completion.rs  build_history, process_attachments        *)
(*   src/src/sessions.rs         the backend tasks, poll_backend_flower    *)
(*                                                                         *)
(* Eight specifications share the module:                                  *)
(*   Spec       one chat: the foreground (send, stop, poll) and the        *)
(*              background completion tasks talking through the flower.    *)
(*   SpecRegen  a restored chat where the user may also regenerate.        *)
(*   SpecHist   build_history as a function of its inputs.                 *)
(*   SpecDiag   the diagnosis of a drained Failure, by its raw error text. *)
(*   SpecSend   send_message over the compose states and logs it can meet. *)
(*   SpecDelete completions in flight while turns are removed and retried. *)
(*   SpecBackend the backend tasks of Sessions on Sessions::flower.        *)
(*   SpecLive   Spec for one send, with the fairness of the scheduling.    *)
(* Indices of turns are 0-based as in the source; messages[i + 1] is the   *)
(* turn of index i.  Option<T> is a sequence of length at most one.        *)
(***************************************************************************)
EXTENDS Integers, Sequences, FiniteSets, TLC

VARIABLES
    messages,        \* Chat::messages, the turn log (foreground only)
    stop_generating, \* Chat::stop_generating, the shared cancel flag
    flower,          \* Chat::flower, the progress/result channel
    tasks,           \* the spawned completion tasks, by invocation
    fg,              \* where the foreground is inside poll_flower
    trace,           \* per invocation: what was sent, drained, performed
    hist,            \* SpecHist, SpecDiag: the input under test (and its output);
                     \* SpecBackend: the fields of Sessions
    compose          \* Chat::chatbox and Chat::files, the compose state

vars == <<messages, stop_generating, flower, tasks, fg, trace, hist, compose>>

---------------------------------------------------------------------------
(* Bounds *)

MaxTasks == 2       \* completions started in one behaviour
MaxChunks == 2      \* chunks one stream delivers
MaxTurns == 4       \* turns of a build_history input

TaskIds == 1..MaxTasks

---------------------------------------------------------------------------
(* Option and sequence helpers *)

None == <<>>
Some(x) == <<x>>
Last(s) == s[Len(s)]

RECURSIVE Flatten(_)
Flatten(ss) == IF ss = <<>> THEN <<>> ELSE Head(ss) \o Flatten(Tail(ss))

---------------------------------------------------------------------------
(* Data model: Message, Attachment, Part *)

NoFile == [uri |-> None, mime_type |-> None, expiration_time |-> None]

Pending == [tag |-> "Pending", file |-> NoFile]
Uploading == [tag |-> "Uploading", file |-> NoFile]
Uploaded(file) == [tag |-> "Uploaded", file |-> file]

\* impl Default for Message
DefaultMessage ==
    [content |-> "", role |-> "User", is_generating |-> FALSE,
     is_error |-> FALSE, files |-> <<>>, is_thought |-> FALSE,
     generation_time |-> None, usage |-> None, status_message |-> None]

\* Message::user
UserMessage(content, files) ==
    [DefaultMessage EXCEPT !.content = content, !.role = "User",
                           !.is_generating = FALSE, !.files = files]

AssistantGenerating_Off == FALSE
\* the is_generating field of Message::assistant
AssistantGenerating == TRUE

\* Message::assistant
AssistantMessage(content) ==
    [DefaultMessage EXCEPT !.content = content, !.role = "Assistant",
                           !.is_generating = AssistantGenerating]

\* any Part variant other than Part::Text coming from the backend
OtherPart == [kind |-> "Other", text |-> "", thought |-> None]
\* Part::Text { text, thought, .. }; thought is an Option<bool>
TextPart(text, thought) == [kind |-> "Text", text |-> text, thought |-> thought]

\* thought.unwrap_or(false)
IsThoughtPart(part) == IF part.thought = None THEN FALSE ELSE part.thought[1]

---------------------------------------------------------------------------
(* The progress/result channel (CompletionFlower).  One slot for the       *)
(* progress in flight, one cell for the terminal outcome.                  *)

NoEvent == [kind |-> "None", inv |-> 0]
NoResult == [kind |-> "None", inv |-> 0]

\* ChatProgress, with the index it is sent with; inv is the invocation that
\* sent it (bookkeeping only, the consumer never reads it)
PartEvent(inv, idx, part) == [kind |-> "Part", inv |-> inv, idx |-> idx, part |-> part]
StatusEvent(inv, idx, message) == [kind |-> "Status", inv |-> inv, idx |-> idx, message |-> message]
FileUploadingEvent(inv, idx, path) == [kind |-> "FileUploading", inv |-> inv, idx |-> idx, path |-> path]
FileUploadedEvent(inv, idx, path, file) ==
    [kind |-> "FileUploaded", inv |-> inv, idx |-> idx, path |-> path, file |-> file]

\* the payload of handle.success / handle.error
SuccessResult(inv, idx, text, usage) ==
    [kind |-> "Success", inv |-> inv, idx |-> idx, text |-> text, usage |-> usage]
FailureResult(inv, idx, text) ==
    [kind |-> "Failure", inv |-> inv, idx |-> idx, text |-> text, usage |-> None]

\* Err(Compact::Panicked(e)): the task ended without a terminal call
PanickedResult(inv, e) ==
    [kind |-> "Panicked", inv |-> inv, idx |-> 0, text |-> e, usage |-> None]

FlowerInit == [activated |-> FALSE, chan |-> NoEvent, result |-> NoResult]

\* flower.is_active()
flower_active == flower.activated

Acked_NoWait(t) == TRUE
\* handle.send returns once the consumer has taken the progress it sent
Acked(t) == flower.chan.inv # t

---------------------------------------------------------------------------
(* History Builder and Attachment Resolver (chat_completion.rs).           *)
(* env = [inv, now]: the invocation the events are stamped with and the    *)
(* instant time::OffsetDateTime::now_utc() returns.  The conversion helper *)
(* is outside the listed sources; outcomes[path] is what it answers for a   *)
(* path.                                                                   *)

HistParts(text) == IF text = "" THEN <<>> ELSE <<TextPart(text, None)>>
InlinePart(path) == [kind |-> "Inline", path |-> path]
FileDataPart(uri, mime) == [kind |-> "FileData", file_uri |-> uri, mime_type |-> mime]

\* path.file_name(); the paths of the model have no directory component
FileName(path) == path

\* unwrap_or_default of an Option<String>
UnwrapOrDefault(opt) == IF opt = None THEN "" ELSE opt[1]

IsExpired_Never(file, now) == FALSE
\* is_expired of process_attachments
IsExpired(file, now) ==
    IF file.expiration_time # None THEN file.expiration_time[1] < now ELSE FALSE

\* the test that lets process_attachments reuse the remote handle
Reusable(att, now) ==
    /\ att.state.tag = "Uploaded"
    /\ ~IsExpired(att.state.file, now)
    /\ att.state.file.uri # None

\* convert_file_to_part(gemini, path, upload)
ConvertOutcomes == {"inline", "uploaded", "uploaded_nouri", "err"}
convert_file_to_part(path, outcome, upload, now) ==
    CASE outcome = "err" -> [kind |-> "Err"]
      [] outcome = "inline" \/ ~upload -> [kind |-> "InlinePart", part |-> InlinePart(path)]
      [] outcome = "uploaded" ->
            [kind |-> "UploadedFile",
             file |-> [uri |-> Some("new:" \o path), mime_type |-> Some("mime"),
                       expiration_time |-> Some(now + 2)]]
      [] OTHER ->
            [kind |-> "UploadedFile",
             file |-> [uri |-> None, mime_type |-> Some("mime"),
                       expiration_time |-> Some(now + 2)]]

\* FileData::try_from(&file_handle)
FileDataTryFrom(file) ==
    IF file.uri # None /\ file.mime_type # None
    THEN Some(FileDataPart(file.uri[1], file.mime_type[1]))
    ELSE None

\* the sends and the pushes of a build in program order
Sends(events) == [i \in 1..Len(events) |-> [kind |-> "send", event |-> events[i]]]
Pushes(parts) == [i \in 1..Len(parts) |-> [kind |-> "push", part |-> parts[i]]]

UploadingEvents_Never(env, allow_upload, file_msg_index, path) == <<>>
\* "Trigger Uploading state in UI (target the message with the file)"
UploadingEvents(env, allow_upload, file_msg_index, path) ==
    IF allow_upload THEN <<FileUploadingEvent(env.inv, file_msg_index, path)>> ELSE <<>>

OnConvertError_Placeholder(path) == <<InlinePart(path)>>
\* Err(e) => log::error!(..): what the failed conversion adds to the buffer
OnConvertError(path) == <<>>

\* one iteration of the loop of process_attachments
ResolveAttachment(env, att, outcome, allow_upload, status_channel, file_msg_index) ==
    IF Reusable(att, env.now)
    THEN LET reference == FileDataPart(att.state.file.uri[1],
                                       UnwrapOrDefault(att.state.file.mime_type))
         IN [parts |-> <<reference>>, events |-> <<>>, calls |-> <<>>,
             order |-> Pushes(<<reference>>)]
    ELSE LET effective_upload == allow_upload /\ status_channel # None
             res == convert_file_to_part(att.path, outcome, effective_upload, env.now)
             before ==
                 IF status_channel = None THEN <<>>
                 ELSE <<StatusEvent(env.inv, status_channel[1],
                            "Processing file: " \o FileName(att.path) \o "...")>>
                      \o UploadingEvents(env, allow_upload, file_msg_index, att.path)
             after ==
                 IF res.kind = "UploadedFile" /\ status_channel # None
                 THEN <<FileUploadedEvent(env.inv, file_msg_index, att.path, res.file)>>
                 ELSE <<>>
             parts ==
                 CASE res.kind = "InlinePart" -> <<res.part>>
                   [] res.kind = "UploadedFile" -> FileDataTryFrom(res.file)
                   [] OTHER -> OnConvertError(att.path)
         IN [parts |-> parts, events |-> before \o after,
             calls |-> <<[path |-> att.path, upload |-> effective_upload]>>,
             order |-> Sends(before) \o Sends(after) \o Pushes(parts)]

RECURSIVE process_attachments(_, _, _, _, _, _)
process_attachments(env, files, outcomes, allow_upload, status_channel, file_msg_index) ==
    IF files = <<>>
    THEN [parts |-> <<>>, events |-> <<>>, calls |-> <<>>, order |-> <<>>]
    ELSE LET h == ResolveAttachment(env, Head(files), outcomes[Head(files).path], allow_upload,
                                    status_channel, file_msg_index)
             r == process_attachments(env, Tail(files), outcomes, allow_upload,
                                      status_channel, file_msg_index)
         IN [parts |-> h.parts \o r.parts, events |-> h.events \o r.events,
             calls |-> h.calls \o r.calls, order |-> h.order \o r.order]

IsSkipped_EmptyOnly(message) == message.content = "" /\ message.files = <<>>
\* the `continue` at the head of the loop of build_history
IsSkipped(message) ==
    message.is_thought \/ (message.content = "" /\ message.files = <<>>)

\* MessageRole -> Role
RoleOf(message) == IF message.role = "User" THEN "user" ELSE "model"

Content(parts, role) == [parts |-> Some(parts), role |-> Some(role)]

RoleChanged_Never(current_role, message_role) == FALSE
\* *current_role != message_role
RoleChanged(current_role, message_role) == current_role # message_role

\* st = [history, parts_buffer, active_role, events, calls, order]
HistoryInit ==
    [history |-> <<>>, parts_buffer |-> <<>>, active_role |-> None,
     events |-> <<>>, calls |-> <<>>, order |-> <<>>]

\* the flush of the accumulator on a role change
FlushOnRole(st, message_role) ==
    IF st.active_role # None /\ RoleChanged(st.active_role[1], message_role)
       /\ st.parts_buffer # <<>>
    THEN [st EXCEPT !.history = Append(@, Content(st.parts_buffer, st.active_role[1])),
                    !.parts_buffer = <<>>]
    ELSE st

\* one iteration of the loop over the messages
HistoryStep(st, env, message, msg_idx, outcomes, public_file_upload, status_channel) ==
    IF IsSkipped(message) THEN st
    ELSE LET f == FlushOnRole(st, RoleOf(message))
             r == process_attachments(env, message.files, outcomes, public_file_upload,
                                      status_channel, msg_idx)
         IN [f EXCEPT !.active_role = Some(RoleOf(message)),
                      !.parts_buffer = @ \o r.parts \o HistParts(message.content),
                      !.events = @ \o r.events,
                      !.calls = @ \o r.calls,
                      !.order = @ \o r.order \o Pushes(HistParts(message.content))]

RECURSIVE HistoryLoop(_, _, _, _, _, _, _)
HistoryLoop(st, env, msgs, msg_idx, outcomes, public_file_upload, status_channel) ==
    IF msg_idx >= Len(msgs) THEN st
    ELSE HistoryLoop(
             HistoryStep(st, env, msgs[msg_idx + 1], msg_idx, outcomes,
                         public_file_upload, status_channel),
             env, msgs, msg_idx + 1, outcomes, public_file_upload, status_channel)

FinalFlush_Always(st) == IF st.active_role # None THEN [st EXCEPT !.history = Append(@, Content(st.parts_buffer, st.active_role[1])), !.parts_buffer = <<>>] ELSE st
\* the flush after the last message
FinalFlush(st) ==
    IF st.parts_buffer # <<>> /\ st.active_role # None
    THEN [st EXCEPT !.history = Append(@, Content(st.parts_buffer, st.active_role[1])),
                    !.parts_buffer = <<>>]
    ELSE st

ExtraArgs_Inherited(public_file_upload, status_channel) == [allow_upload |-> public_file_upload, status_channel |-> status_channel]
\* the arguments `false` and `None` of the process_attachments call for the
\* extra content
ExtraArgs(public_file_upload, status_channel) ==
    [allow_upload |-> FALSE, status_channel |-> None]

\* the extra content (compose box): never uploaded, never reported
ExtraContent(st, env, extra_content, outcomes, public_file_upload, status_channel) ==
    IF extra_content = None THEN st
    ELSE LET args == ExtraArgs(public_file_upload, status_channel)
             r == process_attachments(env, extra_content[1].files, outcomes,
                                      args.allow_upload, args.status_channel, 0)
             extra_parts == r.parts \o HistParts(extra_content[1].text)
         IN [st EXCEPT !.history = IF extra_parts # <<>>
                                   THEN Append(@, Content(extra_parts, "user"))
                                   ELSE @,
                       !.events = @ \o r.events,
                       !.calls = @ \o r.calls,
                       !.order = @ \o r.order \o Pushes(HistParts(extra_content[1].text))]

ClearStatus_Silent(st, env, status_channel) == st
\* the closing "clear status" event
ClearStatus(st, env, status_channel) ==
    IF status_channel = None THEN st
    ELSE [st EXCEPT !.events = Append(@, StatusEvent(env.inv, status_channel[1], "")),
                    !.order = @ \o Sends(<<StatusEvent(env.inv, status_channel[1], "")>>)]

\* build_history(gemini, messages, extra_content, public_file_upload, status_channel)
build_history(env, msgs, outcomes, extra_content, public_file_upload, status_channel) ==
    ClearStatus(
        ExtraContent(
            FinalFlush(HistoryLoop(HistoryInit, env, msgs, 0, outcomes,
                                   public_file_upload, status_channel)),
            env, extra_content, outcomes, public_file_upload, status_channel),
        env, status_channel)

---------------------------------------------------------------------------
(* Error diagnosis: the "Robust answer extraction" of the finalize closure. *)
(* A raw error text is the sequence of its lexical units: the structural    *)
(* characters {  }  "  :  , each on their own, the two-character sequences  *)
(* \" and \n, the line feed, and runs of other characters.  The             *)
(* pictographs that open the templates are left out of the template texts.  *)

\* the String a sequence of units spells
RECURSIVE Render(_)
Render(toks) == IF toks = <<>> THEN "" ELSE Head(toks) \o Render(Tail(toks))

\* msg.find('{')
Find(toks, unit) ==
    IF \E i \in 1..Len(toks) : toks[i] = unit
    THEN Some(CHOOSE i \in 1..Len(toks) :
                  toks[i] = unit /\ \A j \in 1..(i - 1) : toks[j] # unit)
    ELSE None

\* json_candidate.rfind('}')
RFind(toks, unit) ==
    IF \E i \in 1..Len(toks) : toks[i] = unit
    THEN Some(CHOOSE i \in 1..Len(toks) :
                  toks[i] = unit /\ \A j \in (i + 1)..Len(toks) : toks[j] # unit)
    ELSE None

\* json_str.replace("\\\"", "\"").replace("\\n", "\n")
Unescape_Kept(json_str) == json_str
Unescape(json_str) ==
    [i \in 1..Len(json_str) |->
        IF json_str[i] = "\\\"" THEN "\""
        ELSE IF json_str[i] = "\\n" THEN "\n"
        ELSE json_str[i]]

\* serde_json::Value, as far as the error texts need it
JsonString(s) == [t |-> "str", s |-> s]
JsonNumber(n) == [t |-> "num", n |-> n]
JsonObject(members) == [t |-> "obj", members |-> members]
Member(k, v) == [k |-> k, v |-> v]
Numbers == {"0", "400", "403", "404", "429", "500"}

ParseFail == [ok |-> FALSE, val |-> JsonNumber("0"), next |-> 0]
ParseOk(val, next) == [ok |-> TRUE, val |-> val, next |-> next]

IsSpace(unit) == unit \in {" ", "\n"}

RECURSIVE SkipSpace(_, _)
SkipSpace(toks, i) ==
    IF i <= Len(toks) /\ IsSpace(toks[i]) THEN SkipSpace(toks, i + 1) ELSE i

\* a JSON string after its opening quote: \" and \n are escapes, a raw line
\* feed is a control character and ends the parse with an error
RECURSIVE ParseString(_, _, _)
ParseString(toks, i, acc) ==
    IF i > Len(toks) THEN ParseFail
    ELSE IF toks[i] = "\"" THEN ParseOk(JsonString(acc), i + 1)
    ELSE IF toks[i] = "\n" THEN ParseFail
    ELSE IF toks[i] = "\\\"" THEN ParseString(toks, i + 1, Append(acc, "\""))
    ELSE IF toks[i] = "\\n" THEN ParseString(toks, i + 1, Append(acc, "\n"))
    ELSE ParseString(toks, i + 1, Append(acc, toks[i]))

RECURSIVE ParseValue(_, _)
RECURSIVE ParseMembers(_, _, _)
ParseValue(toks, from) ==
    LET i == SkipSpace(toks, from)
    IN IF i > Len(toks) THEN ParseFail
       ELSE CASE toks[i] = "{" ->
                    LET j == SkipSpace(toks, i + 1)
                    IN IF j <= Len(toks) /\ toks[j] = "}"
                       THEN ParseOk(JsonObject(<<>>), j + 1)
                       ELSE ParseMembers(toks, j, <<>>)
              [] toks[i] = "\"" -> ParseString(toks, i + 1, <<>>)
              [] toks[i] \in Numbers -> ParseOk(JsonNumber(toks[i]), i + 1)
              [] OTHER -> ParseFail

\* "key" : value, then , or }
ParseMembers(toks, from, acc) ==
    LET i == SkipSpace(toks, from)
    IN IF i > Len(toks) \/ toks[i] # "\"" THEN ParseFail
       ELSE LET key == ParseString(toks, i + 1, <<>>)
                c == SkipSpace(toks, key.next)
            IN IF ~key.ok \/ c > Len(toks) \/ toks[c] # ":" THEN ParseFail
               ELSE LET v == ParseValue(toks, c + 1)
                        e == SkipSpace(toks, v.next)
                        members == Append(acc, Member(key.val.s, v.val))
                    IN IF ~v.ok \/ e > Len(toks) THEN ParseFail
                       ELSE IF toks[e] = "," THEN ParseMembers(toks, e + 1, members)
                       ELSE IF toks[e] = "}" THEN ParseOk(JsonObject(members), e + 1)
                       ELSE ParseFail

\* serde_json::from_str::<serde_json::Value>: one value, then only whitespace
from_str(toks) ==
    LET r == ParseValue(toks, 1)
    IN IF r.ok /\ SkipSpace(toks, r.next) > Len(toks) THEN Some(r.val) ELSE None

\* Value::get(key): None on a value that is not an object; the last member of
\* that name otherwise
Get(val, key) ==
    IF val.t = "obj" /\ \E i \in 1..Len(val.members) : val.members[i].k = <<key>>
    THEN LET i == CHOOSE i \in 1..Len(val.members) :
                      /\ val.members[i].k = <<key>>
                      /\ \A j \in (i + 1)..Len(val.members) : val.members[j].k # <<key>>
         IN Some(val.members[i].v)
    ELSE None

\* .and_then(|v| v.as_i64()).unwrap_or(0)
AsI64Or(field, default) ==
    IF field # None /\ field[1].t = "num" THEN field[1].n ELSE default

\* .and_then(|v| v.as_str()).unwrap_or(..)
AsStrOr(field, default) ==
    IF field # None /\ field[1].t = "str" THEN field[1].s ELSE <<default>>

\* the retry_info of the RESOURCE_EXHAUSTED arm
RetryInfo(message) ==
    LET pos == Find(message, "retry in ")
    IN IF pos # None
       THEN <<"\n\n**Suggestion:** ">> \o SubSeq(message, pos[1], Len(message))
       ELSE <<>>

\* match status { .. }
StatusTemplate(code, status, message) ==
    CASE Render(status) = "RESOURCE_EXHAUSTED" ->
            <<"**", "Quota Exhausted", " (429)**\n\nYou've hit the Gemini API rate limit. Please wait a bit or check your Google AI Studio quota.">>
                \o RetryInfo(message)
      [] Render(status) = "NOT_FOUND" ->
            <<"**", "Model Not Found", " (404)**\n\nThe model you selected is either not found or not supported for this operation. Try choosing a different model.\n\n**Details:** ">>
                \o message
      [] Render(status) = "PERMISSION_DENIED" ->
            <<"**", "Permission Denied", " (403)**\n\nCheck your API Key and project permissions. Make sure the Key is valid for the selected region.\n\n**Details:** ">>
                \o message
      [] Render(status) = "INVALID_ARGUMENT" ->
            <<"**", "Invalid Request", " (400)**\n\nSomething is wrong with the request parameters.\n\n**Details:** ">>
                \o message
      [] OTHER ->
            <<"**Gemini API Error (", code, ")**\n\n**Status:** ">> \o status
                \o <<"\n**Message:** ">> \o message

\* the arm of a JSON document with an "error" member
ErrorTemplate(err_obj) ==
    StatusTemplate(AsI64Or(Get(err_obj, "code"), "0"),
                   AsStrOr(Get(err_obj, "status"), "UNKNOWN"),
                   AsStrOr(Get(err_obj, "message"), "No message"))

\* the escapes serde_json writes inside a string
EscapeString(s) ==
    [i \in 1..Len(s) |->
        IF s[i] = "\"" THEN "\\\"" ELSE IF s[i] = "\n" THEN "\\n" ELSE s[i]]

Quoted(s) == <<"\"">> \o EscapeString(s) \o <<"\"">>

Indent(depth) == [i \in 1..depth |-> "  "]

\* serde_json::to_string_pretty: two spaces a level, one member a line.  The
\* members are written in the order parsed, which is the order of the map for
\* the documents of RawTexts (their keys are in ascending order).
RECURSIVE Pretty(_, _)
RECURSIVE PrettyMembers(_, _, _)
Pretty(val, depth) ==
    CASE val.t = "str" -> Quoted(val.s)
      [] val.t = "num" -> <<val.n>>
      [] OTHER ->
            IF val.members = <<>> THEN <<"{", "}">>
            ELSE <<"{">> \o PrettyMembers(val.members, depth + 1, 1)
                     \o <<"\n">> \o Indent(depth) \o <<"}">>

PrettyMembers(members, depth, i) ==
    IF i > Len(members) THEN <<>>
    ELSE (IF i > 1 THEN <<",">> ELSE <<>>) \o <<"\n">> \o Indent(depth)
             \o Quoted(members[i].k) \o <<":", " ">> \o Pretty(members[i].v, depth)
             \o PrettyMembers(members, depth, i + 1)

\* let final_msg = if let Some(start_idx) = msg.find('{') { .. } else { msg.clone() }
Diagnose(msg) ==
    LET start_idx == Find(msg, "{")
    IN IF start_idx = None THEN msg
       ELSE LET json_candidate == SubSeq(msg, start_idx[1], Len(msg))
                end_idx == IF RFind(json_candidate, "}") # None
                           THEN RFind(json_candidate, "}")[1]
                           ELSE Len(json_candidate)
                json_str == SubSeq(json_candidate, 1, end_idx)
                unescaped == Unescape(json_str)
                target_json == IF from_str(json_str) # None THEN json_str ELSE unescaped
                json == from_str(target_json)
            IN IF json = None THEN msg
               ELSE IF Get(json[1], "error") # None
                    THEN ErrorTemplate(Get(json[1], "error")[1])
                    ELSE Pretty(json[1], 0)

\* format!("Tokio task panicked: {e}")
PanickedText(e) == <<"Tokio task panicked: ">> \o e

\* modal.dialog().with_body(final_msg)..open(): the bodies of the alerts the
\* finalize closure opens for one result
OpenAlerts_Raw(res) == IF res.kind = "Success" THEN <<>> ELSE <<Render(res.text)>>
OpenAlerts(res) ==
    CASE res.kind = "Success" -> <<>>
      [] res.kind = "Panicked" -> <<Render(Diagnose(PanickedText(res.text)))>>
      [] OTHER -> <<Render(Diagnose(res.text))>>

---------------------------------------------------------------------------
(* Conversation Assembler: the closures of Chat::poll_flower.              *)

InRange(msgs, idx) == idx >= 0 /\ idx < Len(msgs)

Elapsed == "elapsed"

\* msg.files.iter_mut().find(|a| a.path == path), then the state is set
RECURSIVE SetAttachmentState(_, _, _)
SetAttachmentState(files, path, state) ==
    IF files = <<>> THEN <<>>
    ELSE IF Head(files).path = path
         THEN <<[Head(files) EXCEPT !.state = state]>> \o Tail(files)
         ELSE <<Head(files)>> \o SetAttachmentState(Tail(files), path, state)

ClearStatusOnPart_Kept(msgs, idx) == msgs
\* "Clear status message when receiving new parts"
ClearStatusOnPart(msgs, idx) ==
    IF InRange(msgs, idx) THEN [msgs EXCEPT ![idx + 1].status_message = None] ELSE msgs

SplitsOnAnswer_Never(current) == FALSE
\* the thought -> answer transition: the trailing turn is a thought turn
SplitsOnAnswer(current) == current.is_thought

ApplyTextPart_Overwrite(msgs, text, thought) == [msgs EXCEPT ![Len(msgs)].content = text, ![Len(msgs)].is_thought = thought]
\* ChatProgress::Part(Part::Text { text, thought, .. }); msgs is not empty
ApplyTextPart(msgs, text, thought) ==
    LET n == Len(msgs)
        current_response_msg == msgs[n]
    IN IF thought
       THEN [msgs EXCEPT ![n].is_thought = TRUE, ![n].content = @ \o text]
       ELSE IF SplitsOnAnswer(current_response_msg)
            THEN Append([msgs EXCEPT ![n].is_generating = FALSE,
                                     ![n].generation_time = Some(Elapsed)],
                        [AssistantMessage(text) EXCEPT !.is_generating = TRUE])
            ELSE [msgs EXCEPT ![n].content = @ \o text]

\* messages.last_mut().unwrap() on an empty log
PartPanics(msgs, ev) == ev.kind = "Part" /\ ev.part.kind = "Text" /\ msgs = <<>>

\* the closure given to extract
ApplyProgress(msgs, ev) ==
    CASE ev.kind = "Status" ->
            IF InRange(msgs, ev.idx)
            THEN [msgs EXCEPT ![ev.idx + 1].status_message = Some(ev.message)]
            ELSE msgs
      [] ev.kind = "FileUploading" ->
            IF InRange(msgs, ev.idx)
            THEN [msgs EXCEPT ![ev.idx + 1].files =
                                  SetAttachmentState(@, ev.path, Uploading)]
            ELSE msgs
      [] ev.kind = "FileUploaded" ->
            IF InRange(msgs, ev.idx)
            THEN [msgs EXCEPT ![ev.idx + 1].files =
                                  SetAttachmentState(@, ev.path, Uploaded(ev.file))]
            ELSE msgs
      [] OTHER ->
            LET cleared == ClearStatusOnPart(msgs, ev.idx)
            IN IF ev.part.kind = "Text"
               THEN ApplyTextPart(cleared, ev.part.text, IsThoughtPart(ev.part))
               ELSE cleared

\* finalize, Ok((idx, _, usage))
ApplySuccess(msgs, idx, usage) ==
    IF InRange(msgs, idx)
    THEN [msgs EXCEPT ![idx + 1].usage = usage, ![idx + 1].status_message = None]
    ELSE msgs

\* finalize, Err(Compact::Suppose((idx, e)))
ApplyFailure(msgs, idx, msg) ==
    IF InRange(msgs, idx)
    THEN [msgs EXCEPT ![idx + 1].content = Render(Diagnose(msg)),
                      ![idx + 1].is_error = TRUE,
                      ![idx + 1].is_generating = FALSE,
                      ![idx + 1].generation_time = Some(Elapsed),
                      ![idx + 1].status_message = None]
    ELSE msgs

PostCondition_Skip(msgs) == msgs
\* the closing block of the finalize closure, on messages.last_mut()
PostCondition(msgs) ==
    IF msgs # <<>> /\ Last(msgs).is_generating
    THEN [msgs EXCEPT ![Len(msgs)].is_generating = FALSE,
                      ![Len(msgs)].generation_time = Some(Elapsed),
                      ![Len(msgs)].status_message = None]
    ELSE msgs

PanickedTarget_Nowhere(msgs) == Len(msgs)
\* Compact::Panicked(e) => (self.messages.len() - 1, ..); the log is not empty
\* while a completion is in flight
PanickedTarget(msgs) == Len(msgs) - 1

\* the closure given to finalize
ApplyResult(msgs, res) ==
    PostCondition(CASE res.kind = "Success" -> ApplySuccess(msgs, res.idx, res.usage)
                    [] res.kind = "Panicked" ->
                           ApplyFailure(msgs, PanickedTarget(msgs), PanickedText(res.text))
                    [] OTHER -> ApplyFailure(msgs, res.idx, res.text))

---------------------------------------------------------------------------
(* Inputs: what the user and the backend may supply *)

Chatboxes == {"hi", "hi\n"}
\* chatbox.trim_end()
TrimEnd(chatbox) ==
    IF chatbox = "hi\n" THEN "hi" ELSE IF chatbox = "\n" THEN "" ELSE chatbox

Attachment(path, state) == [path |-> path, state |-> state]
Paths == {"f1", "f2", "f3"}
ComposeFiles == {<<>>}

\* Settings as read by spawn_completion.  The fields the selected backend
\* never reads are held at one value.
SettingsSet ==
    {s \in [auth_method : {"ApiKey", "CodeAssist"},
            api_key : {"", "key"},
            oauth_token : {"", "token"},
            project_id : {"", "proj"},
            use_streaming : BOOLEAN,
            public_file_upload : {FALSE},
            include_thoughts_in_history : BOOLEAN] :
        /\ s.auth_method = "ApiKey" => s.oauth_token = "" /\ s.project_id = ""
        /\ s.auth_method = "CodeAssist" => s.api_key = ""}

\* the streaming API-key configuration, without and with remote upload
RegenSettings ==
    [auth_method |-> "ApiKey", api_key |-> "key", oauth_token |-> "", project_id |-> "",
     use_streaming |-> TRUE, public_file_upload |-> FALSE,
     include_thoughts_in_history |-> FALSE]

RegenSettingsUpload == [RegenSettings EXCEPT !.public_file_upload = TRUE]

NoSettings ==
    [auth_method |-> "ApiKey", api_key |-> "", oauth_token |-> "", project_id |-> "",
     use_streaming |-> FALSE, public_file_upload |-> FALSE,
     include_thoughts_in_history |-> FALSE]

\* raw error texts of the transport, in lexical units
ErrTexts == {<<"connection reset">>}
Times == {0, 3}

ThoughtAbc == TextPart("abc", Some(TRUE))
AnswerDef == TextPart("def", None)

\* A response or stream chunk: candidates[0].content.parts and usage_metadata;
\* parts = <<>> also stands for a chunk without candidate or without parts
Chunk(parts, usage_metadata) == [parts |-> parts, usage_metadata |-> usage_metadata]
Chunks ==
    {Chunk(<<>>, None),
     Chunk(<<ThoughtAbc>>, None),
     Chunk(<<AnswerDef>>, Some("u1")),
     Chunk(<<OtherPart>>, Some("u2")),
     Chunk(<<ThoughtAbc, AnswerDef>>, None)}

---------------------------------------------------------------------------
(* Background tasks *)

IdleTask ==
    [pc |-> "idle", index |-> 0, messages |-> <<>>, settings |-> NoSettings,
     project_id |-> "", response_text |-> "", final_usage |-> None, outbox |-> <<>>,
     chunks |-> 0]

\* a network-facing call and what is known of it: how it ended, or the project
\* id of the client that issues it
NetCall(call, detail) == [call |-> call, detail |-> detail]

\* what client.load_code_assist() may answer
LoadResults ==
    {[ok |-> FALSE, project |-> ""], [ok |-> TRUE, project |-> "proj-resolved"]}

HandshakeProject_Configured(configured, result) == configured
\* the project id of the client after the match on load_code_assist()
HandshakeProject(configured, result) ==
    IF result.ok THEN result.project ELSE configured

TraceInit ==
    [sent |-> [t \in TaskIds |-> <<>>],      \* progress handed to handle.send
     seen |-> [t \in TaskIds |-> <<>>],      \* progress applied by extract
     terms |-> [t \in TaskIds |-> <<>>],     \* handle.success / handle.error calls
     termSeen |-> [t \in TaskIds |-> <<>>],  \* outcomes applied by finalize
     net |-> [t \in TaskIds |-> <<>>],       \* network-facing steps performed
     cancel |-> [t \in TaskIds |-> None],    \* where check_cancellation won
     stopped |-> [t \in TaskIds |-> FALSE],  \* stop clicked while in the stream loop
     err |-> [t \in TaskIds |-> None],       \* error the backend returned
     wrote |-> [t \in TaskIds |-> {}],       \* turns (1-based) its events changed
     alerts |-> [t \in TaskIds |-> <<>>],    \* bodies of the alerts opened for it
     recv |-> [t \in TaskIds |-> <<>>],     \* chunks and responses it received
     own |-> [t \in TaskIds |-> {}]]        \* where its turns are now (1-based):
                                             \* the one it was started for and
                                             \* those its parts pushed

HistIdle == [pc |-> "off"]

\* the task is not inside handle.send and has no part left to send
Ready(t) == tasks[t].outbox = <<>> /\ Acked(t)

\* the loop over messages of spawn_completion (include_thoughts_in_history)
FoldThought(msg) ==
    IF msg.is_thought
    THEN [msg EXCEPT !.is_thought = FALSE,
                     !.content = "MY INNER REFLECTIONS: " \o @
                                 \o "--- end of inner reflections ---\\r\\n"]
    ELSE msg
Snapshot(msgs, settings) ==
    IF settings.include_thoughts_in_history
    THEN [i \in 1..Len(msgs) |-> FoldThought(msgs[i])]
    ELSE msgs

LogAfterSpawn_Folded(msgs, settings) == Snapshot(msgs, settings)
\* self.messages after spawn_completion(&self, ..): the fold is applied to the
\* clone, the log is left as it was
LogAfterSpawn(msgs, settings) == msgs

\* target_index.unwrap_or(self.messages.len() - 1)
TargetIndex(msgs, target_index) ==
    IF target_index = None THEN Len(msgs) - 1 ELSE target_index[1]

FreeTask(t) == tasks[t].pc = "idle" /\ \A u \in TaskIds : u < t => tasks[u].pc # "idle"

\* Scheduling assumed by Spec: a spawned task runs its first statement,
\* handle.activate(), before the user sends again
ActivationSettled == \A t \in TaskIds : tasks[t].pc # "spawned"

\* An invocation that has ended and whose outcome is drained keeps no record
RetiredTask == [IdleTask EXCEPT !.pc = "retired"]
Over(t) == tasks[t].pc \in {"done", "panicked"} /\ trace.termSeen[t] # <<>>
Retire(tk) == [t \in TaskIds |-> IF Over(t) THEN RetiredTask ELSE tk[t]]
RetireTrace(tr) ==
    [f \in DOMAIN tr |-> [t \in TaskIds |-> IF Over(t) THEN TraceInit[f][t] ELSE tr[f][t]]]

\* spawn_completion up to tokio::spawn
Spawned(msgs, settings, target_index) ==
    [IdleTask EXCEPT !.pc = "spawned",
                     !.index = TargetIndex(msgs, target_index),
                     !.messages = Snapshot(msgs, settings),
                     !.settings = settings]

ApiKeyMissing_Never(settings) == FALSE
\* api_key.is_empty()
ApiKeyMissing(settings) == settings.api_key = ""

\* oauth_token.is_empty() || project_id.is_empty()
OAuthMissing(settings) == settings.oauth_token = "" \/ settings.project_id = ""

ErrorResult_Wrapped(inv, index, e) == FailureResult(inv, index, <<"request failed: ">> \o e)
\* .map_err(|e| handle.error((index, e.to_string())))
ErrorResult(inv, index, e) == FailureResult(inv, index, e)

CancelledStream_Failure(inv, index, response_text, final_usage) ==
    <<FailureResult(inv, index, <<"cancelled">>)>>
\* the terminal calls of the stream loop left by `break` on cancellation
CancelledStream(inv, index, response_text, final_usage) ==
    <<SuccessResult(inv, index, response_text, final_usage)>>

CancelledOpen_Silent(inv, index, response_text, final_usage) == <<>>
\* the terminal calls of `None => { handle.success(..); return Ok(()) }`
CancelledOpen(inv, index, response_text, final_usage) ==
    <<SuccessResult(inv, index, response_text, final_usage)>>

CancelledBlocking_Failure(inv, index, response_text, final_usage) == <<FailureResult(inv, index, <<"cancelled">>)>>
\* the terminal call after `_ = check_cancellation() => {}` of the blocking path
CancelledBlocking(inv, index, response_text, final_usage) ==
    <<SuccessResult(inv, index, response_text, final_usage)>>

\* the task calls handle.success / handle.error for each of `results` and ends
Emit(t, results) ==
    /\ flower' = [flower EXCEPT !.result = IF results = <<>> THEN @ ELSE Last(results)]
    /\ tasks' = [tasks EXCEPT ![t].pc = "done", ![t].messages = <<>>]

\* handle.activate()
TaskActivate(t) ==
    /\ tasks[t].pc = "spawned"
    /\ flower' = [flower EXCEPT !.activated = TRUE]
    /\ tasks' = [tasks EXCEPT ![t].pc = "dispatch"]
    /\ UNCHANGED <<messages, stop_generating, fg, trace, hist, compose>>

\* match auth_method, a credential is missing
TaskConfigError(t) ==
    LET s == tasks[t].settings
        res == IF s.auth_method = "ApiKey"
               THEN FailureResult(t, tasks[t].index, <<"API key not set.">>)
               ELSE FailureResult(t, tasks[t].index,
                        <<"OAuth token or Project ID not set. Please login in settings.">>)
    IN /\ tasks[t].pc = "dispatch"
       /\ IF s.auth_method = "ApiKey" THEN ApiKeyMissing(s) ELSE OAuthMissing(s)
       /\ Emit(t, <<res>>)
       /\ trace' = [trace EXCEPT !.terms[t] = Append(@, res)]
       /\ UNCHANGED <<messages, stop_generating, fg, hist, compose>>

\* AuthMethod::ApiKey: model_picker.create_client(&api_key, proxy_path)
TaskCreateClient(t) ==
    /\ tasks[t].pc = "dispatch"
    /\ tasks[t].settings.auth_method = "ApiKey"
    /\ ~ApiKeyMissing(tasks[t].settings)
    /\ \/ /\ tasks' = [tasks EXCEPT ![t].pc = "build"]
          /\ trace' = [trace EXCEPT !.net[t] = Append(@, NetCall("create_client", "ok"))]
          /\ UNCHANGED flower
       \/ \E e \in ErrTexts :
            LET res == FailureResult(t, tasks[t].index, <<"Failed to create client: ">> \o e)
            IN /\ Emit(t, <<res>>)
               /\ trace' = [trace EXCEPT !.net[t] = Append(@, NetCall("create_client", "err")),
                                         !.terms[t] = Append(@, res)]
    /\ UNCHANGED <<messages, stop_generating, fg, hist, compose>>

\* AuthMethod::CodeAssist: CodeAssistClient::new, then client.load_code_assist()
TaskHandshake(t) ==
    /\ tasks[t].pc = "dispatch"
    /\ tasks[t].settings.auth_method = "CodeAssist"
    /\ ~OAuthMissing(tasks[t].settings)
    /\ \E result \in LoadResults :
         /\ tasks' = [tasks EXCEPT
                         ![t].pc = "onboard",
                         ![t].project_id =
                             HandshakeProject(tasks[t].settings.project_id, result)]
         /\ trace' = [trace EXCEPT
                         !.net[t] = Append(@, NetCall("load_code_assist",
                                                      IF result.ok THEN "ok" ELSE "err"))]
    /\ UNCHANGED <<messages, stop_generating, flower, fg, hist, compose>>

\* client.onboard_user(); its error is only logged
TaskOnboard(t) ==
    /\ tasks[t].pc = "onboard"
    /\ \E ok \in BOOLEAN :
         /\ tasks' = [tasks EXCEPT ![t].pc = "build"]
         /\ trace' = [trace EXCEPT
                         !.net[t] = Append(@, NetCall("onboard_user",
                                                      IF ok THEN "ok" ELSE "err"))]
    /\ UNCHANGED <<messages, stop_generating, flower, fg, hist, compose>>

\* the paths of the attachments of a log
PathsOf(msgs) ==
    {msgs[i].files[j].path : <<i, j>> \in
        {p \in (1..Len(msgs)) \X (1..2) : p[2] <= Len(msgs[p[1]].files)}}

\* the answers of the conversion helper, for the paths that are asked about
OutcomesFor(paths) ==
    {[p \in Paths |-> IF p \in paths THEN o[p] ELSE "inline"] :
        o \in [paths -> ConvertOutcomes]}

\* request_completion / request_completion_code_assist up to the request:
\* build_history with Some((index, handle)); its events are sent one by one
TaskBuild(t) ==
    /\ tasks[t].pc = "build"
    /\ \/ \E now \in Times, outcomes \in OutcomesFor(PathsOf(tasks[t].messages)) :
            LET s == tasks[t].settings
                allow == IF s.auth_method = "ApiKey" THEN s.public_file_upload ELSE FALSE
                b == build_history([inv |-> t, now |-> now], tasks[t].messages, outcomes,
                                   None, allow, Some(tasks[t].index))
            IN /\ tasks' = [tasks EXCEPT
                               ![t].pc = IF s.use_streaming THEN "open" ELSE "blocking",
                               ![t].outbox = b.events,
                               ![t].messages = <<>>]
               /\ trace' = [trace EXCEPT
                               !.net[t] = @ \o [i \in 1..Len(b.calls) |->
                                                 NetCall("convert_file_to_part", "")]]
               /\ UNCHANGED flower
       \/ \* Gemini::new("")? of request_completion_code_assist
          /\ tasks[t].settings.auth_method = "CodeAssist"
          /\ \E e \in ErrTexts :
               LET res == ErrorResult(t, tasks[t].index, e)
               IN /\ Emit(t, <<res>>)
                  /\ trace' = [trace EXCEPT !.terms[t] = Append(@, res)]
    /\ UNCHANGED <<messages, stop_generating, fg, hist, compose>>

\* handle.send((index, progress)); response_text += text for a text part
Accumulate_AnswersOnly(response_text, part) == IF part.kind = "Text" /\ ~IsThoughtPart(part) THEN response_text \o part.text ELSE response_text
\* if let Part::Text { text, .. } = part { response_text += &text; }
Accumulate(response_text, part) ==
    IF part.kind = "Text" THEN response_text \o part.text ELSE response_text

TaskSend(t) ==
    LET ev == Head(tasks[t].outbox)
    IN /\ tasks[t].pc \in {"open", "blocking", "stream", "finish"}
       /\ tasks[t].outbox # <<>>
       /\ Acked(t)
       /\ flower.chan.kind = "None"
       /\ flower' = [flower EXCEPT !.chan = ev]
       /\ tasks' = [tasks EXCEPT
                       ![t].outbox = Tail(@),
                       ![t].response_text =
                           IF ev.kind = "Part" THEN Accumulate(@, ev.part) ELSE @]
       /\ trace' = [trace EXCEPT !.sent[t] = Append(@, ev)]
       /\ UNCHANGED <<messages, stop_generating, fg, hist, compose>>

\* check_cancellation wins the select! around execute_stream (ApiKey backend)
TaskOpenCancel(t) ==
    LET rs == CancelledOpen(t, tasks[t].index, tasks[t].response_text, tasks[t].final_usage)
    IN /\ tasks[t].pc = "open"
       /\ tasks[t].settings.auth_method = "ApiKey"
       /\ Ready(t)
       /\ stop_generating
       /\ stop_generating' = FALSE
       /\ Emit(t, rs)
       /\ trace' = [trace EXCEPT
                       !.terms[t] = @ \o rs,
                       !.cancel[t] = Some([phase |-> "open", text |-> tasks[t].response_text])]
       /\ UNCHANGED <<messages, fg, hist, compose>>

\* execute_stream() / generate_content_stream() resolves
TaskOpenStream(t) ==
    /\ tasks[t].pc = "open"
    /\ Ready(t)
    /\ \/ /\ tasks' = [tasks EXCEPT ![t].pc = "stream"]
          /\ trace' = [trace EXCEPT
                          !.net[t] = Append(@, NetCall("execute_stream", tasks[t].project_id))]
          /\ UNCHANGED flower
       \/ \E e \in ErrTexts :
            LET res == ErrorResult(t, tasks[t].index, e)
            IN /\ Emit(t, <<res>>)
               /\ trace' = [trace EXCEPT
                               !.net[t] = Append(@, NetCall("execute_stream",
                                                            tasks[t].project_id)),
                                         !.terms[t] = Append(@, res),
                                         !.err[t] = Some(e)]
    /\ UNCHANGED <<messages, stop_generating, fg, hist, compose>>

\* check_cancellation wins the select! of the stream loop
TaskStreamCancel(t) ==
    LET rs == CancelledStream(t, tasks[t].index, tasks[t].response_text,
                              tasks[t].final_usage)
    IN /\ tasks[t].pc = "stream"
       /\ Ready(t)
       /\ stop_generating
       /\ stop_generating' = FALSE
       /\ Emit(t, rs)
       /\ trace' = [trace EXCEPT
                       !.terms[t] = @ \o rs,
                       !.cancel[t] = Some([phase |-> "stream", text |-> tasks[t].response_text])]
       /\ UNCHANGED <<messages, fg, hist, compose>>

CaptureUsage_Overwrite(final_usage, usage_metadata) == usage_metadata
\* usage_metadata of a chunk: the latest one present is kept
CaptureUsage(final_usage, usage_metadata) ==
    IF usage_metadata # None THEN usage_metadata ELSE final_usage

\* stream.next() resolves with Some(Ok(res))
TaskStreamChunk(t) ==
    /\ tasks[t].pc = "stream"
    /\ Ready(t)
    /\ tasks[t].chunks < MaxChunks
    /\ \E res \in Chunks :
         /\ tasks' = [tasks EXCEPT
                      ![t].chunks = @ + 1,
                      ![t].final_usage = CaptureUsage(@, res.usage_metadata),
                      ![t].outbox = [i \in 1..Len(res.parts) |->
                                        PartEvent(t, tasks[t].index, res.parts[i])]]
         /\ trace' = [trace EXCEPT !.recv[t] = Append(@, res)]
    /\ UNCHANGED <<messages, stop_generating, flower, fg, hist, compose>>

\* stream.next() resolves with Some(Err(e))
TaskStreamError(t) ==
    /\ tasks[t].pc = "stream"
    /\ Ready(t)
    /\ \E e \in ErrTexts :
         LET res == ErrorResult(t, tasks[t].index, e)
         IN /\ Emit(t, <<res>>)
            /\ trace' = [trace EXCEPT !.terms[t] = Append(@, res), !.err[t] = Some(e)]
    /\ UNCHANGED <<messages, stop_generating, fg, hist, compose>>

\* stream.next() resolves with None, then "Notify UI of success"
TaskStreamEnd(t) ==
    LET res == SuccessResult(t, tasks[t].index, tasks[t].response_text,
                             tasks[t].final_usage)
    IN /\ tasks[t].pc = "stream"
       /\ Ready(t)
       /\ Emit(t, <<res>>)
       /\ trace' = [trace EXCEPT !.terms[t] = Append(@, res)]
       /\ UNCHANGED <<messages, stop_generating, fg, hist, compose>>

\* check_cancellation wins the select! around execute() / generate_content()
TaskBlockingCancel(t) ==
    LET rs == CancelledBlocking(t, tasks[t].index, tasks[t].response_text,
                                tasks[t].final_usage)
    IN /\ tasks[t].pc = "blocking"
       /\ Ready(t)
       /\ stop_generating
       /\ stop_generating' = FALSE
       /\ Emit(t, rs)
       /\ trace' = [trace EXCEPT
                       !.terms[t] = @ \o rs,
                       !.cancel[t] = Some([phase |-> "blocking",
                                           text |-> tasks[t].response_text])]
       /\ UNCHANGED <<messages, fg, hist, compose>>

\* execute() / generate_content() resolves
TaskBlocking(t) ==
    /\ tasks[t].pc = "blocking"
    /\ Ready(t)
    /\ \/ \E response \in Chunks :
            /\ tasks' = [tasks EXCEPT
                            ![t].pc = "finish",
                            ![t].final_usage = response.usage_metadata,
                            ![t].outbox = [i \in 1..Len(response.parts) |->
                                              PartEvent(t, tasks[t].index, response.parts[i])]]
            /\ trace' = [trace EXCEPT
                            !.net[t] = Append(@, NetCall("execute", tasks[t].project_id)),
                            !.recv[t] = Append(@, response)]
            /\ UNCHANGED flower
       \/ \E e \in ErrTexts :
            LET res == ErrorResult(t, tasks[t].index, e)
            IN /\ Emit(t, <<res>>)
               /\ trace' = [trace EXCEPT
                               !.net[t] = Append(@, NetCall("execute", tasks[t].project_id)),
                                         !.terms[t] = Append(@, res),
                                         !.err[t] = Some(e)]
    /\ UNCHANGED <<messages, stop_generating, fg, hist, compose>>

\* handle.success((index, response_text, final_usage)) of the blocking path
TaskFinish(t) ==
    LET res == SuccessResult(t, tasks[t].index, tasks[t].response_text,
                             tasks[t].final_usage)
    IN /\ tasks[t].pc = "finish"
       /\ Ready(t)
       /\ Emit(t, <<res>>)
       /\ trace' = [trace EXCEPT !.terms[t] = Append(@, res)]
       /\ UNCHANGED <<messages, stop_generating, fg, hist, compose>>

\* the task panics between two calls: it ends without a terminal call and
\* the flower reports Compact::Panicked
PanicTexts == {<<"boom">>}
TaskPanic(t) ==
    /\ tasks[t].pc \in {"build", "stream"}
    /\ Ready(t)
    /\ \E e \in PanicTexts :
         flower' = [flower EXCEPT !.result = PanickedResult(t, e)]
    /\ tasks' = [tasks EXCEPT ![t].pc = "panicked", ![t].messages = <<>>]
    /\ UNCHANGED <<messages, stop_generating, fg, trace, hist, compose>>

---------------------------------------------------------------------------
(* Foreground *)

\* Chat::send_message followed by spawn_completion(settings, None)
\* the compose box as Chat::new leaves it
ComposeInit == [chatbox |-> "", files |-> <<>>]

\* what the user can have put into the compose box before pressing Enter
ComposeInputs == [chatbox : Chatboxes \cup {""}, files : ComposeFiles]

\* the early return of send_message: nothing typed and nothing attached
NothingToSend_EmptyBox(chatbox, files) == chatbox = ""

NothingToSend(chatbox, files) == chatbox = "" /\ files = <<>>

\* the text box and the file picker fill the compose state; typing is taken
\* in the frames whose Enter would send, where the box holds what was typed
edit_chatbox ==
    /\ fg = "idle"
    /\ ~flower_active
    /\ ActivationSettled
    /\ compose = ComposeInit
    /\ compose' \in ComposeInputs \ {ComposeInit}
    /\ UNCHANGED <<messages, stop_generating, flower, tasks, fg, trace, hist>>

\* fn send_message, run on the log and the compose state its caller hands it
\* the turns of the positions in `removed` leave the log: the turns of an
\* invocation move down, or are gone
ShiftTargets(tr, removed) ==
    [tr EXCEPT !.own =
        [t \in TaskIds |->
            {p - Cardinality({q \in removed : q < p}) : p \in @[t] \ removed}]]

SendMessage(log, box, tr) ==
    IF NothingToSend(box.chatbox, box.files)
    THEN /\ messages' = log
         /\ compose' = box
         /\ trace' = tr
         /\ UNCHANGED tasks
    ELSE /\ \E t \in TaskIds, s \in SettingsSet :
              LET retained == SelectSeq(log, LAMBDA m : ~m.is_error)
                  msgs == retained \o <<UserMessage(TrimEnd(box.chatbox), box.files),
                                        AssistantMessage("")>>
              IN /\ FreeTask(t)
                 /\ (\A i \in 1..Len(msgs) : ~msgs[i].is_thought)
                        => ~s.include_thoughts_in_history
                 /\ messages' = LogAfterSpawn(msgs, s)
                 /\ tasks' = [Retire(tasks) EXCEPT ![t] = Spawned(msgs, s, None)]
                 /\ trace' = [RetireTrace(ShiftTargets(tr,
                                   {i \in 1..Len(log) : log[i].is_error}))
                                 EXCEPT !.own[t] = {Len(msgs)}]
         /\ compose' = ComposeInit

\* Enter in the focused compose box, while nothing is generating
send_message ==
    /\ fg = "idle"
    /\ ~flower_active
    /\ ActivationSettled
    /\ SendMessage(messages, compose, trace)
    /\ UNCHANGED <<stop_generating, flower, fg, hist>>

Remove(log, idx) == SubSeq(log, 1, idx) \o SubSeq(log, idx + 2, Len(log))

\* the Retry button of an error turn, taken at the top of show_chatbox:
\* the turn before it goes back into the compose state, both turns are
\* removed and send_message runs.  On the first turn `idx - 1` underflows.
retry_message ==
    /\ fg = "idle"
    /\ \E idx \in 0..(Len(messages) - 1) :
         /\ messages[idx + 1].is_error
         /\ IF idx = 0
            THEN /\ fg' = "panicked"
                 /\ UNCHANGED <<messages, tasks, trace, compose>>
            ELSE /\ SendMessage(Remove(Remove(messages, idx), idx - 1),
                                [chatbox |-> messages[idx].content,
                                 files |-> messages[idx].files],
                                ShiftTargets(trace, {idx, idx + 1}))
                 /\ fg' = fg
    /\ UNCHANGED <<stop_generating, flower, hist>>

\* the Remove button, offered on every turn that is neither generating nor
\* an error
delete_message ==
    /\ fg = "idle"
    /\ \E idx \in 0..(Len(messages) - 1) :
         /\ ~messages[idx + 1].is_generating
         /\ ~messages[idx + 1].is_error
         /\ messages' = Remove(messages, idx)
         /\ trace' = ShiftTargets(trace, {idx + 1})
    /\ UNCHANGED <<stop_generating, flower, tasks, fg, hist, compose>>

\* the "Regenerate" button of Message::show for the turn of index idx, then
\* Chat::regenerate_response(settings, idx); the prepend buffer is empty
regenerate_response ==
    /\ fg = "idle"
    /\ \E t \in TaskIds, idx \in 0..(Len(messages) - 1) :
       \E s \in SettingsSet \cup {RegenSettingsUpload} :
         LET m == messages[idx + 1]
             msgs == [messages EXCEPT ![idx + 1].content = "",
                                      ![idx + 1].is_generating = TRUE]
         IN /\ m.role = "Assistant"
            /\ ~m.is_thought /\ ~m.is_generating /\ ~m.is_error
            /\ FreeTask(t)
            /\ (\A i \in 1..Len(msgs) : ~msgs[i].is_thought)
                   => ~s.include_thoughts_in_history
            /\ messages' = LogAfterSpawn(msgs, s)
            /\ tasks' = [tasks EXCEPT ![t] = Spawned(msgs, s, Some(idx))]
            /\ trace' = [trace EXCEPT !.own[t] = {idx + 1}]
    /\ UNCHANGED <<stop_generating, flower, fg, hist, compose>>

\* Chat::stop_generating_button, clicked; it is drawn while the flower is active
stop_generating_button ==
    /\ fg = "idle"
    /\ flower_active
    /\ messages # <<>>
    /\ stop_generating' = TRUE
    /\ trace' = [trace EXCEPT
                    !.stopped = [t \in TaskIds |-> @[t] \/ tasks[t].pc = "stream"]]
    /\ UNCHANGED <<messages, flower, tasks, fg, hist, compose>>

\* the turns of the log a step of poll_flower changed or appended
Changed(old, new) ==
    {i \in 1..Len(new) : i > Len(old) \/ new[i] # old[i]}

\* Chat::poll_flower, self.flower.extract(..)
PollExtract ==
    LET ev == flower.chan
    IN /\ fg = "idle"
       /\ flower_active
       /\ IF ev.kind = "None"
          THEN /\ fg' = "extracted"
               /\ UNCHANGED <<messages, flower, trace>>
          ELSE /\ flower' = [flower EXCEPT !.chan = NoEvent]
               /\ IF PartPanics(messages, ev)
                  THEN /\ fg' = "panicked"
                       /\ trace' = [trace EXCEPT !.seen[ev.inv] = Append(@, ev)]
                       /\ UNCHANGED messages
                  ELSE /\ fg' = "extracted"
                       /\ messages' = ApplyProgress(messages, ev)
                       /\ trace' = [trace EXCEPT
                                       !.seen[ev.inv] = Append(@, ev),
                                       !.wrote[ev.inv] =
                                           @ \cup Changed(messages,
                                                          ApplyProgress(messages, ev)),
                                       !.own[ev.inv] =
                                           @ \cup (Len(messages) + 1)..
                                                       Len(ApplyProgress(messages, ev))]
       /\ UNCHANGED <<stop_generating, tasks, hist, compose>>

\* Chat::poll_flower, .finalize(..)
PollFinalize ==
    LET res == flower.result
    IN /\ fg = "extracted"
       /\ fg' = "idle"
       /\ IF res.kind = "None"
          THEN UNCHANGED <<messages, flower, trace>>
          ELSE /\ messages' = ApplyResult(messages, res)
               /\ flower' = [flower EXCEPT !.result = NoResult, !.activated = FALSE]
               /\ trace' = [trace EXCEPT
                               !.termSeen[res.inv] = Append(@, res),
                               !.alerts[res.inv] = @ \o OpenAlerts(res),
                               !.wrote[res.inv] =
                                   @ \cup Changed(messages, ApplyResult(messages, res))]
       /\ UNCHANGED <<stop_generating, tasks, hist, compose>>

---------------------------------------------------------------------------
(* Spec: one chat with its completion tasks *)

Init ==
    /\ messages = <<>>
    /\ stop_generating = FALSE
    /\ flower = FlowerInit
    /\ tasks = [t \in TaskIds |-> IdleTask]
    /\ fg = "idle"
    /\ trace = TraceInit
    /\ hist = HistIdle
    /\ compose = ComposeInit

TaskStep(t) ==
    \/ TaskActivate(t)
    \/ TaskConfigError(t)
    \/ TaskCreateClient(t)
    \/ TaskHandshake(t)
    \/ TaskOnboard(t)
    \/ TaskBuild(t)
    \/ TaskSend(t)
    \/ TaskOpenCancel(t)
    \/ TaskOpenStream(t)
    \/ TaskStreamCancel(t)
    \/ TaskStreamChunk(t)
    \/ TaskStreamError(t)
    \/ TaskStreamEnd(t)
    \/ TaskBlockingCancel(t)
    \/ TaskBlocking(t)
    \/ TaskFinish(t)
    \/ TaskPanic(t)

Next ==
    \/ edit_chatbox
    \/ send_message
    \/ stop_generating_button
    \/ PollExtract
    \/ PollFinalize
    \/ \E t \in TaskIds : TaskStep(t)

Spec == Init /\ [][Next]_vars

---------------------------------------------------------------------------
(* SpecLive: one send on an empty chat, with the scheduling the code       *)
(* gives.  The tokio runtime runs a task whose next statement does not     *)
(* wait for the network: handle.activate(), the credential checks,         *)
(* Gemini::with_model, build_history over turns without attachments, the   *)
(* handle.send of a pending event, the 100 ms poll of check_cancellation   *)
(* inside a select!, and the closing handle.success.  eframe repaints      *)
(* while the flower is active, so poll_flower keeps draining.  Nothing     *)
(* obliges the network to answer: load_code_assist, onboard_user, the open *)
(* of the stream, stream.next() and the blocking call may stay pending     *)
(* for ever, and the user is not obliged to do anything.                   *)

\* a frame of the foreground
Polled == PollExtract \/ PollFinalize

\* the steps of the tasks that do not wait for a response of the network
Scheduled ==
    \E t \in TaskIds :
         \/ TaskActivate(t)
         \/ TaskConfigError(t)
         \/ TaskCreateClient(t)
         \/ TaskBuild(t)
         \/ TaskSend(t)
         \/ TaskOpenCancel(t)
         \/ TaskStreamCancel(t)
         \/ TaskBlockingCancel(t)
         \/ TaskFinish(t)

NextLive ==
    \/ edit_chatbox
    \/ send_message /\ messages = <<>>
    \/ stop_generating_button
    \/ PollExtract
    \/ PollFinalize
    \/ \E t \in TaskIds : TaskStep(t)

SpecLive == Init /\ [][NextLive]_vars /\ WF_vars(Polled) /\ WF_vars(Scheduled)

---------------------------------------------------------------------------
(* SpecRegen: a chat restored with one finished exchange, where the user   *)
(* sends and regenerates; the backend is the streaming API-key one and     *)
(* answers without error.                                                  *)

RegenLog ==
    <<UserMessage("hi", <<>>), [AssistantMessage("def") EXCEPT !.is_generating = FALSE]>>

\* the same exchange, the user turn carrying an attachment
RegenLogFile ==
    <<UserMessage("hi", <<Attachment("f1", Pending)>>),
      [AssistantMessage("def") EXCEPT !.is_generating = FALSE]>>

\* the compose state the token count reads: chat.chatbox and chat.files
ComposeStates ==
    {[text |-> "", files |-> <<>>], [text |-> "x", files |-> <<Attachment("f3", Pending)>>]}

\* Sessions::show, the token count of the open chat: build_history over a
\* copy of the log and the compose state, without upload and without sink;
\* hist keeps the events and the conversion calls of the one count followed
count_tokens ==
    /\ hist = HistIdle
    /\ \E now \in Times, extra \in ComposeStates :
       \E outcomes \in OutcomesFor(PathsOf(messages) \cup PathsOf(<<extra>>)) :
           LET b == build_history([inv |-> 0, now |-> now], messages, outcomes,
                                  Some(extra), FALSE, None)
           IN hist' = [pc |-> "out", status_channel |-> None,
                       out |-> [events |-> b.events, calls |-> b.calls]]
    /\ UNCHANGED <<messages, stop_generating, flower, tasks, fg, trace, compose>>

InitRegen ==
    /\ messages \in {RegenLog, RegenLogFile}
    /\ stop_generating = FALSE
    /\ flower = FlowerInit
    /\ tasks = [t \in TaskIds |-> IdleTask]
    /\ fg = "idle"
    /\ trace = TraceInit
    /\ hist = HistIdle
    /\ compose = [chatbox |-> "hi\n", files |-> <<>>]

\* the backend of SpecRegen: the streaming API-key configuration, answer
\* chunks, no failure, uploads made at time 0
RegenBackend ==
    \A t \in TaskIds :
        /\ tasks[t].settings \in {NoSettings, RegenSettings, RegenSettingsUpload}
        /\ \A i \in 1..Len(tasks[t].outbox) :
               /\ tasks[t].outbox[i].kind = "Part" => tasks[t].outbox[i].part = AnswerDef
               /\ tasks[t].outbox[i].kind = "FileUploaded" =>
                      tasks[t].outbox[i].file.expiration_time = Some(2)
        /\ \A i \in 1..Len(trace.terms[t]) : trace.terms[t][i].kind = "Success"

TaskStepRegen(t) ==
    \/ TaskActivate(t)
    \/ TaskCreateClient(t) /\ RegenBackend'
    \/ TaskBuild(t) /\ RegenBackend'
    \/ TaskSend(t)
    \/ TaskOpenStream(t) /\ RegenBackend'
    \/ TaskStreamChunk(t) /\ RegenBackend'
    \/ TaskStreamEnd(t)

NextRegen ==
    \/ send_message /\ RegenBackend'
    \/ regenerate_response /\ RegenBackend'
    \/ count_tokens
    \/ PollExtract
    \/ PollFinalize
    \/ \E t \in TaskIds : TaskStepRegen(t)

SpecRegen == InitRegen /\ [][NextRegen]_vars

(***************************************************************************)
(* SpecSend: send_message over the compose states and logs it can meet.    *)
(***************************************************************************)

ErrorTurn ==
    [AssistantMessage("boom") EXCEPT !.is_generating = FALSE, !.is_error = TRUE]

SendLogs ==
    {<<>>,
     <<UserMessage("hi", <<>>), ErrorTurn>>,
     <<UserMessage("hi", <<>>), ErrorTurn, UserMessage("hi", <<>>),
       [AssistantMessage("def") EXCEPT !.is_generating = FALSE], ErrorTurn>>}

\* nothing, text, text with a trailing newline, white space only, and each
\* of them with a pending attachment
SendInputs ==
    [chatbox : {"", "hi", "hi\n", "\n"}, files : {<<>>, <<Attachment("f1", Pending)>>}]

InitSend ==
    /\ messages \in SendLogs
    /\ stop_generating = FALSE
    /\ flower = FlowerInit
    /\ tasks = [t \in TaskIds |-> IdleTask]
    /\ fg = "idle"
    /\ trace = TraceInit
    /\ hist = HistIdle
    /\ compose \in SendInputs

NextSend ==
    \/ send_message /\ RegenBackend'
    \/ PollExtract
    \/ PollFinalize
    \/ \E t \in TaskIds : TaskStepRegen(t)

SpecSend == InitSend /\ [][NextSend]_vars

(***************************************************************************)
(* SpecDelete: completions in flight while the user removes, retries and   *)
(* regenerates turns.  The requests stream one answer or fail on the wire. *)
(***************************************************************************)

InitDelete ==
    /\ messages = RegenLog
    /\ stop_generating = FALSE
    /\ flower = FlowerInit
    /\ tasks = [t \in TaskIds |-> IdleTask]
    /\ fg = "idle"
    /\ trace = TraceInit
    /\ hist = HistIdle
    /\ compose = [chatbox |-> "hi", files |-> <<>>]

DeleteBackend ==
    \A t \in TaskIds :
        /\ tasks[t].pc \notin {"idle", "retired"} => tasks[t].settings = RegenSettings
        /\ \A i \in 1..Len(tasks[t].outbox) :
               tasks[t].outbox[i].kind = "Part" => tasks[t].outbox[i].part = AnswerDef

TaskStepDelete(t) ==
    \/ TaskActivate(t)
    \/ TaskCreateClient(t) /\ DeleteBackend'
    \/ TaskBuild(t) /\ DeleteBackend'
    \/ TaskSend(t)
    \/ TaskOpenStream(t) /\ DeleteBackend'
    \/ TaskStreamChunk(t) /\ DeleteBackend'
    \/ TaskStreamError(t)
    \/ TaskStreamEnd(t)

NextDelete ==
    \/ send_message /\ DeleteBackend'
    \/ regenerate_response /\ DeleteBackend'
    \/ retry_message /\ DeleteBackend'
    \/ delete_message
    \/ PollExtract
    \/ PollFinalize
    \/ \E t \in TaskIds : TaskStepDelete(t)

SpecDelete == InitDelete /\ [][NextDelete]_vars

(***************************************************************************)
(* SpecBackend: the background tasks of Sessions, which all report on      *)
(* Sessions::flower.  Here `flower` is that channel, `tasks` the spawned   *)
(* backend tasks, `hist` the fields of Sessions the responses are applied  *)
(* to and `compose` the compose state of the chat the files are picked for.*)
(***************************************************************************)

BackendKinds == {"login_google", "pick_files", "load_settings", "export_messages", "count_tokens"}

\* the tasks whose first statement is handle.activate(); the others call it
\* after their work, right before the terminal call
ActivatesFirst == {"login_google", "pick_files", "load_settings"}

\* how the awaited work of a task can end
BackendOutcomes(kind) ==
    CASE kind = "login_google" -> {"projects", "no_projects", "login_failed"}
      [] kind = "pick_files" -> {"picked", "dismissed"}
      [] kind = "load_settings" -> {"loaded", "dismissed", "unreadable", "malformed"}
      [] kind = "export_messages" -> {"exported", "failed"}
      [] kind = "count_tokens" -> {"counted", "failed"}

BackendSuccess(t, response) == [kind |-> "Success", inv |-> t, response |-> response]
BackendError(t, e) == [kind |-> "Failure", inv |-> t, response |-> e]

Toast(kind, text) == [tag |-> "Toast", toast |-> [kind |-> kind, text |-> text]]
AuthResult(token, projects) == [tag |-> "AuthResult", token |-> token, projects |-> projects]

\* the handle.success / handle.error calls of login_google, in program order
login_google(t, outcome) ==
    CASE outcome = "projects" -> <<BackendSuccess(t, AuthResult("token", <<"proj">>))>>
      [] outcome = "no_projects" ->
            <<BackendSuccess(t, Toast("error", "Logged in, but failed to list projects: e")),
              BackendSuccess(t, AuthResult("token", <<>>))>>
      [] outcome = "login_failed" -> <<BackendError(t, "Login failed: e")>>

pick_files(t, outcome) ==
    IF outcome = "dismissed"
    THEN <<BackendSuccess(t, [tag |-> "Ignore"])>>
    ELSE <<BackendSuccess(t, [tag |-> "Files", files |-> <<"f1">>])>>

load_settings(t, outcome) ==
    CASE outcome = "dismissed" -> <<BackendSuccess(t, Toast("info", "No file selected"))>>
      [] outcome = "unreadable" -> <<BackendSuccess(t, Toast("error", "e"))>>
      [] outcome = "loaded" -> <<BackendSuccess(t, [tag |-> "Settings", settings |-> "loaded"])>>
      [] outcome = "malformed" -> <<BackendSuccess(t, Toast("error", "e"))>>

export_messages(t, outcome) ==
    IF outcome = "exported"
    THEN <<BackendSuccess(t, Toast("success", "exported"))>>
    ELSE <<BackendSuccess(t, Toast("error", "e"))>>

\* the token count reports a count only; every failure ends the task silently
token_count(t, outcome) ==
    IF outcome = "counted"
    THEN <<BackendSuccess(t, [tag |-> "TokenCount", count |-> 7])>>
    ELSE <<>>

TerminalCalls(t, kind, outcome) ==
    CASE kind = "login_google" -> login_google(t, outcome)
      [] kind = "pick_files" -> pick_files(t, outcome)
      [] kind = "load_settings" -> load_settings(t, outcome)
      [] kind = "export_messages" -> export_messages(t, outcome)
      [] kind = "count_tokens" -> token_count(t, outcome)

SessionsInit ==
    [pc |-> "sessions", toasts |-> <<>>, dialogs |-> <<>>, oauth_token |-> "",
     available_projects |-> <<>>, project_id |-> "", settings |-> "default",
     token_count |-> None]

\* the match of poll_backend_flower's finalize closure on the Sessions fields
ApplyBackend(sessions, res) ==
    LET r == res.response
    IN IF res.kind = "Failure"
       THEN [sessions EXCEPT !.dialogs = Append(@, r)]
       ELSE CASE r.tag = "Toast" -> [sessions EXCEPT !.toasts = Append(@, r.toast.text)]
              [] r.tag = "Settings" -> [sessions EXCEPT !.settings = r.settings]
              [] r.tag = "TokenCount" -> [sessions EXCEPT !.token_count = Some(r.count)]
              [] r.tag = "AuthResult" ->
                    [sessions EXCEPT
                        !.oauth_token = r.token,
                        !.available_projects = r.projects,
                        !.project_id = IF @ = "" /\ r.projects # <<>> THEN r.projects[1] ELSE @,
                        !.toasts = Append(@, "Google Login successful!")]
              [] OTHER -> sessions

\* a button or the token check of Sessions::show spawns a task on the channel
backend_request ==
    /\ fg = "idle"
    /\ \E t \in TaskIds, kind \in BackendKinds :
         /\ FreeTask(t)
         /\ tasks' = [tasks EXCEPT ![t] = [pc |-> "spawned", kind |-> kind, calls |-> <<>>]]
    /\ UNCHANGED <<messages, stop_generating, flower, fg, trace, hist, compose>>

BackendActivate(t) ==
    /\ \/ tasks[t].pc = "spawned" /\ tasks[t].kind \in ActivatesFirst
          /\ tasks' = [tasks EXCEPT ![t].pc = "await"]
       \/ tasks[t].pc = "ready"
          /\ tasks' = [tasks EXCEPT ![t].pc = "calling"]
    /\ flower' = [flower EXCEPT !.activated = TRUE]
    /\ UNCHANGED <<messages, stop_generating, fg, trace, hist, compose>>

\* the awaited dialog, login, export or count ends
BackendAwait(t) ==
    /\ \/ tasks[t].pc = "await"
       \/ tasks[t].pc = "spawned" /\ tasks[t].kind \notin ActivatesFirst
    /\ \E outcome \in BackendOutcomes(tasks[t].kind) :
         LET calls == TerminalCalls(t, tasks[t].kind, outcome)
         IN tasks' = [tasks EXCEPT
                         ![t].calls = calls,
                         ![t].pc = IF calls = <<>> THEN "done"
                                   ELSE IF tasks[t].kind \in ActivatesFirst THEN "calling"
                                   ELSE "ready"]
    /\ UNCHANGED <<messages, stop_generating, flower, fg, trace, hist, compose>>

\* one handle.success or handle.error call
BackendCall(t) ==
    /\ tasks[t].pc = "calling"
    /\ flower' = [flower EXCEPT !.result = Head(tasks[t].calls)]
    /\ tasks' = [tasks EXCEPT ![t].calls = Tail(@),
                              ![t].pc = IF Len(tasks[t].calls) = 1 THEN "done" ELSE @]
    /\ trace' = [trace EXCEPT !.terms[t] = Append(@, Head(tasks[t].calls))]
    /\ UNCHANGED <<messages, stop_generating, fg, hist, compose>>

poll_backend_flower ==
    LET res == flower.result
    IN /\ fg = "idle"
       /\ flower_active
       /\ res.kind # "None"
       /\ hist' = ApplyBackend(hist, res)
       /\ compose' = IF res.kind = "Success" /\ res.response.tag = "Files"
                     THEN [compose EXCEPT !.files =
                              @ \o [i \in 1..Len(res.response.files) |->
                                       Attachment(res.response.files[i], Pending)]]
                     ELSE compose
       /\ flower' = [flower EXCEPT !.result = NoResult, !.activated = FALSE]
       /\ trace' = [trace EXCEPT !.termSeen[res.inv] = Append(@, res)]
       /\ UNCHANGED <<messages, stop_generating, tasks, fg>>

InitBackend ==
    /\ messages = <<>>
    /\ stop_generating = FALSE
    /\ flower = FlowerInit
    /\ tasks = [t \in TaskIds |-> IdleTask]
    /\ fg = "idle"
    /\ trace = TraceInit
    /\ hist = SessionsInit
    /\ compose = ComposeInit

NextBackend ==
    \/ backend_request
    \/ poll_backend_flower
    \/ \E t \in TaskIds : BackendActivate(t)
    \/ \E t \in TaskIds : BackendAwait(t)
    \/ \E t \in TaskIds : BackendCall(t)

SpecBackend == InitBackend /\ [][NextBackend]_vars

---------------------------------------------------------------------------
(* SpecHist: build_history applied to the logs, attachment states, helper  *)
(* answers and options below.                                              *)

\* the instants now_utc() may return while a request is built
HistTimes == {3, 4}

UserText == UserMessage("u", <<>>)
AssistantText == [AssistantMessage("a") EXCEPT !.is_generating = FALSE]
UserEmpty == UserMessage("", <<>>)
AssistantThought ==
    [AssistantMessage("t") EXCEPT !.is_generating = FALSE, !.is_thought = TRUE]
UserFileOnly == UserMessage("", <<Attachment("f1", Pending)>>)
UserFileText == UserMessage("u", <<Attachment("f1", Pending)>>)

\* turns of the logs the merging is exercised on
BasicTurns ==
    {UserText, AssistantText, UserEmpty, AssistantThought, UserFileOnly, UserFileText}

RemoteFile(uri, expiration_time) ==
    [uri |-> uri, mime_type |-> Some("mime"), expiration_time |-> expiration_time]

\* states an attachment of the log may be in when a request is built:
\* never uploaded, or uploaded with a handle that expired, expires at 3,
\* is still valid, has no expiration, or has no remote URI
AttStates1(path) ==
    {Pending,
     Uploaded(RemoteFile(Some("old:" \o path), Some(1))),
     Uploaded(RemoteFile(Some("old:" \o path), Some(3))),
     Uploaded(RemoteFile(Some("old:" \o path), Some(6))),
     Uploaded(RemoteFile(Some("old:" \o path), None)),
     Uploaded(RemoteFile(None, Some(6)))}
AttStates2(path) ==
    {Pending,
     Uploaded(RemoteFile(Some("old:" \o path), Some(1))),
     Uploaded(RemoteFile(Some("old:" \o path), Some(6)))}

FileLists ==
    {<<Attachment("f1", s1)>> : s1 \in AttStates1("f1")}
    \cup {<<Attachment("f1", s1), Attachment("f2", s2)>> :
            s1 \in AttStates1("f1"), s2 \in AttStates2("f2")}

\* the logs build_history is applied to
HistLogs ==
    UNION {[1..n -> BasicTurns] : n \in 0..MaxTurns}
    \cup {pre \o <<UserMessage(c, fl)>> :
            pre \in {<<>>, <<AssistantText>>}, c \in {"", "u"}, fl \in FileLists}

ExtraContents == {None, Some([text |-> "x", files |-> <<Attachment("f3", Pending)>>])}

\* the extra content goes with the short logs that carry attachments
ExtraFor(m) ==
    IF Len(m) > 2 \/ PathsOf(m) = {} THEN {None} ELSE ExtraContents

HistInputsFor(m, x) ==
    {[pc |-> "in", now |-> n, msgs |-> m, outcomes |-> o, extra_content |-> x,
      public_file_upload |-> u, status_channel |-> c, out |-> HistoryInit] :
        o \in OutcomesFor(PathsOf(m) \cup (IF x = None THEN {} ELSE {"f3"})),
        u \in BOOLEAN, c \in {None, Some(7)}, n \in HistTimes}


InitHist ==
    /\ messages = <<>>
    /\ stop_generating = FALSE
    /\ flower = FlowerInit
    /\ tasks = [t \in TaskIds |-> IdleTask]
    /\ fg = "idle"
    /\ trace = TraceInit
    /\ \E m \in HistLogs : \E x \in ExtraFor(m) : hist \in HistInputsFor(m, x)
    /\ compose = ComposeInit

\* build_history is called and returns
HistBuild ==
    /\ hist.pc = "in"
    /\ hist' = [hist EXCEPT
                   !.pc = "out",
                   !.out = build_history([inv |-> 1, now |-> hist.now], hist.msgs,
                                         hist.outcomes, hist.extra_content,
                                         hist.public_file_upload, hist.status_channel)]
    /\ UNCHANGED <<messages, stop_generating, flower, tasks, fg, trace, compose>>

NextHist == HistBuild

SpecHist == InitHist /\ [][NextHist]_vars

---------------------------------------------------------------------------
(* SpecDiag: the foreground drains one Failure whose raw error text is     *)
(* drawn from RawTexts.  The state it starts in is the one a streaming     *)
(* completion leaves when its transport returns that error at the opening  *)
(* of the stream: hist keeps how the text was put together.                *)

Statuses == {"RESOURCE_EXHAUSTED", "NOT_FOUND", "PERMISSION_DENIED", "INVALID_ARGUMENT", "INTERNAL"}

\* the fields of the "error" member of a response body, each present or not
ErrorDocs ==
    [kind : {"error"},
     code : {None, Some("429")},
     status : {None} \cup {Some(s) : s \in Statuses},
     message : {None, Some(<<"bad model">>),
                Some(<<"quota exceeded, ", "retry in ", "5s">>)}]

\* { "error": "oops" }, { "detail": "x" }, { "error": {   and no document at all
OtherDocs ==
    {[kind |-> k, code |-> None, status |-> None, message |-> None] :
        k \in {"errorText", "other", "broken", "none"}}

InQuotes(word) == <<"\"", word, "\"">>
Field(key, value) == InQuotes(key) \o <<":", " ">> \o value

RECURSIVE JoinFields(_)
JoinFields(fields) ==
    IF fields = <<>> THEN <<>>
    ELSE IF Len(fields) = 1 THEN Head(fields)
    ELSE Head(fields) \o <<",", " ">> \o JoinFields(Tail(fields))

\* the document as the service writes it
DocUnits(doc) ==
    CASE doc.kind = "error" ->
            <<"{", "\n">>
                \o Field("error",
                         <<"{">>
                         \o JoinFields(
                              (IF doc.code = None THEN <<>>
                               ELSE <<Field("code", <<doc.code[1]>>)>>)
                              \o (IF doc.message = None THEN <<>>
                                  ELSE <<Field("message",
                                               <<"\"">> \o doc.message[1] \o <<"\"">>)>>)
                              \o (IF doc.status = None THEN <<>>
                                  ELSE <<Field("status", InQuotes(doc.status[1]))>>))
                         \o <<"}">>)
                \o <<"\n", "}">>
      [] doc.kind = "errorText" -> <<"{">> \o Field("error", InQuotes("oops")) \o <<"}">>
      [] doc.kind = "other" -> <<"{">> \o Field("detail", InQuotes("x")) \o <<"}">>
      [] doc.kind = "broken" -> <<"{">> \o InQuotes("error") \o <<":", " ", "{">>
      [] OTHER -> <<"timeout">>

\* the document inside a string literal: " becomes \" and the line feed \n
Escaped(units) ==
    [i \in 1..Len(units) |->
        IF units[i] = "\"" THEN "\\\"" ELSE IF units[i] = "\n" THEN "\\n" ELSE units[i]]

Encodings == {"literal", "escaped"}
Encode(units, enc) == IF enc = "escaped" THEN Escaped(units) ELSE units

\* what an error's Display or Debug form puts around the document
Prefixes == {<<>>, <<"bad response from server; description: ">>, <<"BadResponse ", "{", " description: ">>}
Suffixes == {<<>>, <<" (request failed)">>, <<" ", "}">>}

RawText(prefix, doc, enc, suffix) == prefix \o Encode(DocUnits(doc), enc) \o suffix

DiagInput(prefix, doc, enc, suffix) ==
    [pc |-> "diag", prefix |-> prefix, doc |-> doc, enc |-> enc, suffix |-> suffix,
     raw |-> RawText(prefix, doc, enc, suffix)]

DiagLog == <<UserMessage("hi", <<>>), AssistantMessage("")>>

InitDiag ==
    /\ \E prefix \in Prefixes, doc \in ErrorDocs \cup OtherDocs :
       \E enc \in Encodings, suffix \in Suffixes :
           hist = DiagInput(prefix, doc, enc, suffix)
    /\ messages = DiagLog
    /\ stop_generating = FALSE
    /\ flower = [FlowerInit EXCEPT !.activated = TRUE,
                                   !.result = FailureResult(1, 1, hist.raw)]
    /\ tasks = [t \in TaskIds |->
                   IF t = 1
                   THEN [Spawned(DiagLog, RegenSettings, None)
                            EXCEPT !.pc = "done", !.messages = <<>>]
                   ELSE IdleTask]
    /\ fg = "idle"
    /\ trace = [TraceInit EXCEPT
                   !.terms[1] = <<FailureResult(1, 1, hist.raw)>>,
                   !.net[1] = <<NetCall("create_client", "ok"),
                                NetCall("execute_stream", "")>>,
                   !.err[1] = Some(hist.raw)]
    /\ compose = ComposeInit

NextDiag ==
    \/ PollExtract
    \/ PollFinalize

SpecDiag == InitDiag /\ [][NextDiag]_vars

---------------------------------------------------------------------------
(* Properties *)

IsPrefix(a, b) == Len(a) <= Len(b) /\ a = SubSeq(b, 1, Len(a))

\* the text parts among the progress events of a sequence, in order
TextPartsOf(events) ==
    LET texts == SelectSeq(events, LAMBDA ev : ev.kind = "Part" /\ ev.part.kind = "Text")
    IN [i \in 1..Len(texts) |-> texts[i].part]

RECURSIVE ConcatText(_)
ConcatText(parts) ==
    IF parts = <<>> THEN "" ELSE Head(parts).text \o ConcatText(Tail(parts))

Live(t) == tasks[t].pc \notin {"idle", "retired"}

C2_StopInStreamAlwaysSuccess ==
    \A t \in TaskIds :
        (trace.stopped[t] /\ trace.terms[t] # <<>>) =>
            /\ trace.terms[t][1].kind = "Success"
            /\ trace.terms[t][1].text = ConcatText(TextPartsOf(trace.sent[t]))

\* C2 amended: whenever the cancellation poll observes the flag while the
\* invocation is in its stream loop, the invocation ends with exactly one
\* terminal outcome, a Success for its index whose text is the concatenation
\* of the text parts sent before the observation.
C2_ObservedCancelIsSuccess ==
    \A t \in TaskIds :
        (trace.cancel[t] # None /\ trace.cancel[t][1].phase = "stream") =>
            /\ Len(trace.terms[t]) = 1
            /\ trace.terms[t][1].kind = "Success"
            /\ trace.terms[t][1].idx = tasks[t].index
            /\ trace.terms[t][1].text = trace.cancel[t][1].text
            /\ trace.terms[t][1].text = ConcatText(TextPartsOf(trace.sent[t]))

C2_Witness ==
    \E t \in TaskIds :
        /\ trace.cancel[t] # None
        /\ trace.cancel[t][1].phase = "stream"
        /\ trace.cancel[t][1].text = "abcdef"
        /\ trace.stopped[t]
        /\ trace.terms[t] # <<>>

\* C3: whenever a completion is started the stop flag is false.
C3_FlagClearWhenStarted ==
    [][(\E t \in TaskIds : tasks[t].pc = "idle" /\ tasks'[t].pc = "spawned")
          => ~stop_generating]_vars

\* C4: every invocation makes at most one terminal call, exactly one once
\* it has ended, and sends no progress after it.
C4_ExactlyOneTerminal ==
    /\ [](\A t \in TaskIds :
             /\ Len(trace.terms[t]) <= 1
             /\ tasks[t].pc = "done" => Len(trace.terms[t]) = 1
             /\ trace.terms[t] # <<>> => tasks[t].pc = "done")
    /\ [][\A t \in TaskIds :
             (trace.terms[t] # <<>> /\ trace.terms'[t] # <<>>)
                 => trace.sent'[t] = trace.sent[t]]_vars

C4_Witness ==
    \E t \in TaskIds :
        /\ tasks[t].pc = "done"
        /\ Len(trace.terms[t]) = 1
        /\ trace.cancel[t] # None
        /\ trace.cancel[t][1].phase = "open"

\* a turn the history skips: a thought, or a turn with no text and no file
C5_Skipped(m) == m.is_thought \/ (m.content = "" /\ m.files = <<>>)

C5_Role(m) == IF m.role = "User" THEN "user" ELSE "model"

\* the maximal runs of consecutive turns sharing a role
RECURSIVE C5_Runs(_)
C5_Runs(ms) ==
    IF ms = <<>> THEN <<>>
    ELSE LET rest == C5_Runs(Tail(ms))
         IN IF rest # <<>> /\ rest[1].role = C5_Role(Head(ms))
            THEN <<[role |-> rest[1].role, turns |-> <<Head(ms)>> \o rest[1].turns]>>
                 \o Tail(rest)
            ELSE <<[role |-> C5_Role(Head(ms)), turns |-> <<Head(ms)>>]>> \o rest

\* the parts one turn contributes: its resolved attachments, then its text
C5_TurnParts(m) ==
    process_attachments([inv |-> 1, now |-> hist.now], m.files, hist.outcomes,
                        hist.public_file_upload, hist.status_channel, 0).parts
    \o (IF m.content = "" THEN <<>> ELSE <<TextPart(m.content, None)>>)

\* one block per run of the non-skipped turns of the log
C5_Blocks ==
    LET runs == C5_Runs(SelectSeq(hist.msgs, LAMBDA m : ~C5_Skipped(m)))
    IN [i \in 1..Len(runs) |->
           [role |-> Some(runs[i].role),
            parts |-> Some(Flatten([j \in 1..Len(runs[i].turns) |->
                                       C5_TurnParts(runs[i].turns[j])]))]]

\* the blocks of the log: the history without the block of the extra content
C5_LogBlocks ==
    IF hist.extra_content # None /\ hist.out.history # <<>>
    THEN SubSeq(hist.out.history, 1, Len(hist.out.history) - 1)
    ELSE hist.out.history

\* C5 as stated: build_history produces one block per maximal run of
\* consecutive non-skipped turns sharing a role, holding the parts of the
\* turns of the run in turn order.
C5_OneBlockPerRun ==
    hist.pc = "out" => C5_LogBlocks = C5_Blocks

\* C5 amended: build_history produces one block per maximal run of
\* consecutive non-skipped turns sharing a role that contributes at least
\* one part, holding the parts of the turns of the run in turn order; a run
\* that contributes no part yields no block.
C5_OneBlockPerNonEmptyRun ==
    hist.pc = "out" =>
        C5_LogBlocks = SelectSeq(C5_Blocks, LAMBDA b : b.parts # Some(<<>>))

C5_Witness ==
    /\ hist.pc = "out"
    /\ hist.msgs = <<UserFileText, UserText, AssistantText, UserText>>
    /\ Len(hist.out.history) = 3
    /\ hist.out.history[1] =
           Content(<<InlinePart("f1"), TextPart("u", None), TextPart("u", None)>>, "user")

\* C6: thought split. When the text parts drained for the first invocation
\* (started on <<user turn, empty generating placeholder>>) are "abc" as a
\* thought then "def" as an answer, and its Success has been drained, the
\* log is the user turn, a thought turn "abc" that is not generating and a
\* non-thought assistant turn "def" that is not generating; and a turn that
\* the drain appends is generating when it is appended.
C6_ThoughtSplit ==
    /\ []((/\ tasks[1].pc = "done"
           /\ \A t \in TaskIds \ {1} : tasks[t].pc = "idle"
           /\ trace.termSeen[1] # <<>>
           /\ trace.termSeen[1][1].kind = "Success"
           /\ TextPartsOf(trace.seen[1]) = <<ThoughtAbc, AnswerDef>>)
          => /\ Len(messages) = 3
             /\ messages[2].role = "Assistant"
             /\ messages[2].is_thought
             /\ messages[2].content = "abc"
             /\ ~messages[2].is_generating
             /\ messages[3].role = "Assistant"
             /\ ~messages[3].is_thought
             /\ messages[3].content = "def"
             /\ ~messages[3].is_generating)
    /\ [][(fg = "idle" /\ fg' = "extracted" /\ Len(messages') = Len(messages) + 1)
             => /\ Last(messages').is_generating
                /\ ~Last(messages').is_thought
                /\ messages[Len(messages)].is_thought
                /\ ~messages'[Len(messages)].is_generating]_vars

C6_Witness ==
    /\ tasks[1].pc = "done"
    /\ \A t \in TaskIds \ {1} : tasks[t].pc = "idle"
    /\ trace.termSeen[1] # <<>>
    /\ trace.termSeen[1][1].kind = "Success"
    /\ TextPartsOf(trace.seen[1]) = <<ThoughtAbc, AnswerDef>>
    /\ Len(messages) = 3

\* C7: post-condition safety. After a finalize that applies a terminal
\* outcome, the trailing turn of the log is not generating.
C7_TrailingNotGenerating ==
    [][(flower.result.kind # "None" /\ flower'.result.kind = "None")
          => (messages' # <<>> => ~Last(messages').is_generating)]_vars

C7_Witness ==
    \E t \in TaskIds :
        /\ trace.termSeen[t] # <<>>
        /\ trace.termSeen[t][1].kind = "Success"
        /\ trace.termSeen[t][1].idx < Len(messages) - 1
        /\ fg = "idle"
        /\ ~Last(messages).is_generating

\* the attachments of the turns of the log that the history does not skip
C8_Attachments ==
    Flatten([i \in 1..Len(hist.msgs) |->
                IF C5_Skipped(hist.msgs[i]) THEN <<>> ELSE hist.msgs[i].files])

\* the attachments whose path occurs once in the log
C8_Single ==
    {C8_Attachments[i] : i \in {k \in 1..Len(C8_Attachments) :
        \A j \in 1..Len(C8_Attachments) :
            C8_Attachments[j].path = C8_Attachments[k].path => j = k}}

C8_Calls(path) == SelectSeq(hist.out.calls, LAMBDA c : c.path = path)

C8_Events(path) ==
    SelectSeq(hist.out.events, LAMBDA ev :
        \/ ev.kind \in {"FileUploading", "FileUploaded"} /\ ev.path = path
        \/ ev.kind = "Status" /\ ev.message = "Processing file: " \o path \o "...")

C8_Parts ==
    Flatten([i \in 1..Len(hist.out.history) |-> hist.out.history[i].parts[1]])

C8_Refers(uri) ==
    \E i \in 1..Len(C8_Parts) : C8_Parts[i].kind = "FileData" /\ C8_Parts[i].file_uri = uri

C8_Future(att) ==
    /\ att.state.tag = "Uploaded"
    /\ att.state.file.expiration_time # None
    /\ att.state.file.expiration_time[1] > hist.now

C8_Past(att) ==
    /\ att.state.tag = "Uploaded"
    /\ att.state.file.expiration_time # None
    /\ att.state.file.expiration_time[1] < hist.now

C8_CalledAgain(att) ==
    /\ Len(C8_Calls(att.path)) = 1
    /\ att.state.tag = "Uploaded" /\ att.state.file.uri # None
          => ~C8_Refers(att.state.file.uri[1])

\* C8 as stated: an attachment Uploaded with an expiration in the future is
\* sent as a reference with no conversion call and no progress event; one
\* Uploaded with an expiration in the past, or not uploaded, is converted
\* again and its old reference is never emitted.
C8_ReuseByExpiration ==
    hist.pc = "out" =>
        \A att \in C8_Single :
            /\ C8_Future(att) =>
                  /\ C8_Calls(att.path) = <<>>
                  /\ C8_Events(att.path) = <<>>
                  /\ \E i \in 1..Len(C8_Parts) : C8_Parts[i].kind = "FileData"
            /\ (C8_Past(att) \/ att.state.tag # "Uploaded") => C8_CalledAgain(att)

\* C8 amended: an attachment Uploaded with an expiration in the future and
\* carrying a remote URI is sent as a reference to that URI with no
\* conversion call and no progress event; one Uploaded with an expiration in
\* the past, or carrying no remote URI, or not uploaded, is converted again
\* and its old reference is never emitted.
C8_ReuseByExpirationAndUri ==
    hist.pc = "out" =>
        \A att \in C8_Single :
            /\ (C8_Future(att) /\ att.state.file.uri # None) =>
                  /\ C8_Calls(att.path) = <<>>
                  /\ C8_Events(att.path) = <<>>
                  /\ C8_Refers(att.state.file.uri[1])
            /\ (C8_Past(att) \/ att.state.tag # "Uploaded"
                  \/ (att.state.tag = "Uploaded" /\ att.state.file.uri = None))
                  => C8_CalledAgain(att)

C8_Witness ==
    /\ hist.pc = "out"
    /\ hist.status_channel # None
    /\ hist.public_file_upload
    /\ \E a, b \in C8_Single :
          /\ C8_Future(a) /\ a.state.file.uri # None /\ C8_Calls(a.path) = <<>>
          /\ C8_Past(b) /\ Len(C8_Calls(b.path)) = 1 /\ C8_Events(b.path) # <<>>

\* the credentials of the selected backend are missing
C9_Missing(s) ==
    \/ s.auth_method = "ApiKey" /\ s.api_key = ""
    \/ s.auth_method = "CodeAssist" /\ (s.oauth_token = "" \/ s.project_id = "")

\* C9: configuration errors fail fast. An invocation whose backend lacks a
\* credential performs no network-facing step and sends no progress, never
\* gets past dispatch, and ends with one Failure for its index.
C9_ConfigFailsFast ==
    \A t \in TaskIds :
        (Live(t) /\ C9_Missing(tasks[t].settings)) =>
            /\ trace.net[t] = <<>>
            /\ trace.sent[t] = <<>>
            /\ tasks[t].pc \in {"spawned", "dispatch", "done"}
            /\ tasks[t].pc = "done" =>
                  /\ Len(trace.terms[t]) = 1
                  /\ trace.terms[t][1].kind = "Failure"
                  /\ trace.terms[t][1].idx = tasks[t].index

C9_Witness ==
    \E t \in TaskIds :
        /\ tasks[t].pc = "done"
        /\ tasks[t].settings.auth_method = "CodeAssist"
        /\ tasks[t].settings.oauth_token # ""
        /\ tasks[t].settings.project_id = ""
        /\ trace.termSeen[t] # <<>>

\* C10: an error the backend returns (opening the stream, on a stream item,
\* on the blocking call) ends the invocation with exactly one terminal
\* outcome, Failure with the invocation's index and the error text as
\* returned.
C10_ErrorIsFailure ==
    \A t \in TaskIds :
        trace.err[t] # None =>
            trace.terms[t] = <<FailureResult(t, tasks[t].index, trace.err[t][1])>>

C10_Witness ==
    \E t \in TaskIds :
        /\ trace.err[t] # None
        /\ TextPartsOf(trace.sent[t]) # <<>>
        /\ trace.terms[t] # <<>>
        /\ trace.terms[t][1].kind = "Failure"

\* the calls of one name among the network-facing calls of an invocation
C11_Calls(net, call) == SelectSeq(net, LAMBDA c : c.call = call)

C11_Requests(t) ==
    SelectSeq(trace.net[t], LAMBDA c : c.call \in {"execute_stream", "execute"})

\* C11: the handshake is best-effort. The step that ends the
\* project-resolution exchange and the step that ends the onboarding call,
\* failed or not, make no terminal call and hand over to the next step
\* (onboarding, then the building of the request); and a generation request
\* of the Code Assist backend carries the resolved project id when the
\* resolution succeeded and the configured one when it failed.
C11_HandshakeBestEffort ==
    /\ [](\A t \in TaskIds :
             (Live(t) /\ tasks[t].settings.auth_method = "CodeAssist") =>
                 \A i \in 1..Len(C11_Requests(t)) :
                     C11_Requests(t)[i].detail =
                         IF C11_Calls(trace.net[t], "load_code_assist")[1].detail = "ok"
                         THEN "proj-resolved"
                         ELSE tasks[t].settings.project_id)
    /\ [][\A t \in TaskIds :
             /\ Len(C11_Calls(trace.net'[t], "load_code_assist"))
                    > Len(C11_Calls(trace.net[t], "load_code_assist"))
                   => trace.terms'[t] = <<>> /\ tasks'[t].pc = "onboard"
             /\ Len(C11_Calls(trace.net'[t], "onboard_user"))
                    > Len(C11_Calls(trace.net[t], "onboard_user"))
                   => trace.terms'[t] = <<>> /\ tasks'[t].pc = "build"]_vars

C11_Witness ==
    \E t \in TaskIds :
        /\ C11_Calls(trace.net[t], "load_code_assist") = <<NetCall("load_code_assist", "err")>>
        /\ C11_Calls(trace.net[t], "onboard_user") = <<NetCall("onboard_user", "err")>>
        /\ C11_Requests(t) = <<NetCall("execute_stream", "proj")>>
        /\ trace.terms[t] # <<>>
        /\ trace.terms[t][1].kind = "Success"

\* an invocation that was started and whose outcome is not drained yet
InFlight(t) == Live(t) /\ trace.termSeen[t] = <<>>

\* C12: no turn of the log is written by events of two different in-flight
\* completions.
C12_NoSharedTurn ==
    \A t, u \in TaskIds :
        (t # u /\ InFlight(t) /\ InFlight(u)) => trace.wrote[t] \cap trace.wrote[u] = {}

\* a task that ran handle.activate() and has made no terminal call yet
C13_Producing(t) ==
    tasks[t].pc \notin {"idle", "retired", "spawned", "done", "panicked"}

\* C13: at most one background task is activated on and producing into the
\* completion flower of a chat.
C13_SingleProducer ==
    Cardinality({t \in TaskIds : C13_Producing(t)}) <= 1

\* a step that starts a completion: a task leaves "idle"
C14_SpawnStep == \E t \in TaskIds : tasks[t].pc = "idle" /\ tasks'[t].pc = "spawned"

\* a step of a background task: a task changes and none is started
C14_TaskStep == tasks' # tasks /\ ~C14_SpawnStep

\* C14: the log is mutated only by foreground steps. No step of a
\* background task changes the log, and starting a completion leaves every
\* thought turn of the log as it was: the fold of the thoughts is applied to
\* the snapshot the task works on, not to the log.
C14_LogOwnedByForeground ==
    [][/\ C14_TaskStep => messages' = messages
       /\ C14_SpawnStep =>
             \A i \in 1..Len(messages) :
                 (messages[i].is_thought /\ ~messages[i].is_error)
                     => \E j \in 1..Len(messages') : messages'[j] = messages[i]]_vars

C14_Witness ==
    \E t \in TaskIds :
        /\ tasks[t].pc = "stream"
        /\ trace.sent[t] # <<>>
        /\ tasks[t].settings.include_thoughts_in_history
        /\ \E i \in 1..Len(messages) : messages[i].is_thought /\ messages[i].content = "abc"

\* C15: abnormal producer termination. When the outcome drained by finalize
\* is the task-failed variant (the task ended without a terminal call), the
\* trailing turn of the log is an error turn that holds the task-failed text
\* and is not generating, and the flower is inactive.
C15_PanicMarksTrailingTurn ==
    [][(flower.result.kind = "Panicked" /\ flower'.result.kind = "None") =>
          /\ \E t \in TaskIds :
                /\ tasks[t].pc = "panicked"
                /\ trace.terms[t] = <<>>
                /\ trace.termSeen'[t] = <<flower.result>>
          /\ messages' # <<>>
          /\ Last(messages').is_error
          /\ ~Last(messages').is_generating
          /\ Last(messages').content = "Tokio task panicked: boom"
          /\ ~flower'.activated]_vars

C15_Witness ==
    \E t \in TaskIds :
        /\ tasks[t].pc = "panicked"
        /\ trace.sent[t] # <<>>
        /\ trace.termSeen[t] # <<>>
        /\ trace.termSeen[t][1].kind = "Panicked"
        /\ Last(messages).is_error
        /\ ~flower.activated

\* C16: in streaming mode the cancellation poll races against the call that
\* opens the stream, for both backends: whenever an invocation is waiting
\* for stream-open and the stop flag is set, it can end at once by the
\* cancellation, with Success and empty text, stream-open not completed.
C16_OpenRacesCancellation ==
    \A t \in TaskIds :
        (tasks[t].pc = "open" /\ Ready(t) /\ stop_generating) =>
            ENABLED (/\ TaskOpenCancel(t)
                     /\ trace'.terms[t] = <<SuccessResult(t, tasks[t].index, "", None)>>
                     /\ trace'.net[t] = trace.net[t])

\* the units of text hold the phrase as one unit
Contains(text, phrase) == \E i \in 1..Len(text) : text[i] = phrase

EndsWith(text, tail) ==
    Len(tail) <= Len(text) /\ SubSeq(text, Len(text) - Len(tail) + 1, Len(text)) = tail

\* C17: a drained Failure, whatever its raw error text, leaves the targeted
\* turn with is_error set, is_generating cleared and the diagnosis text as its
\* content, and opens exactly one alert, whose body is that same text; no
\* alert is open for an invocation before its outcome is drained.
C17_FailureHandlingIgnoresDiagnosis ==
    \A t \in TaskIds :
        /\ trace.termSeen[t] = <<>> => trace.alerts[t] = <<>>
        /\ \A i \in 1..Len(trace.termSeen[t]) :
               LET res == trace.termSeen[t][i]
                   final_msg == Render(Diagnose(res.text))
               IN (res.kind = "Failure" /\ InRange(messages, res.idx)) =>
                      /\ messages[res.idx + 1].is_error
                      /\ ~messages[res.idx + 1].is_generating
                      /\ messages[res.idx + 1].content = final_msg
                      /\ trace.alerts[t] = <<final_msg>>

\* a Failure carrying an escaped error document was drained and its diagnosis
\* is not the raw text
C17_Witness ==
    /\ hist.pc = "diag" /\ hist.doc.kind = "error" /\ hist.enc = "escaped"
    /\ hist.prefix = <<"bad response from server; description: ">> /\ hist.suffix = <<>>
    /\ trace.termSeen[1] = <<FailureResult(1, 1, hist.raw)>>
    /\ messages[2].is_error /\ ~messages[2].is_generating
    /\ trace.alerts[1] = <<messages[2].content>>
    /\ messages[2].content # Render(hist.raw)

C18_Drained == hist.pc = "diag" /\ trace.termSeen[1] # <<>>

\* the units of a message, and of a code or status, or of the default shown
C18_Or(field, default) == IF field = None THEN <<default>> ELSE field[1]
C18_Word(field, default) == IF field = None THEN <<default>> ELSE field

\* what the claim asks of the diagnosis d of a text put together from doc
C18_Mapping(doc, raw, d) ==
    /\ (doc.kind = "error" /\ doc.status = Some("RESOURCE_EXHAUSTED")) =>
           Contains(d, "Quota Exhausted")
    /\ (doc.kind = "error" /\ doc.status = Some("NOT_FOUND")) =>
           Contains(d, "Model Not Found") /\ EndsWith(d, C18_Or(doc.message, "No message"))
    /\ (doc.kind = "error" /\ doc.status = Some("PERMISSION_DENIED")) =>
           Contains(d, "Permission Denied") /\ EndsWith(d, C18_Or(doc.message, "No message"))
    /\ (doc.kind = "error" /\ doc.status = Some("INVALID_ARGUMENT")) =>
           Contains(d, "Invalid Request") /\ EndsWith(d, C18_Or(doc.message, "No message"))
    /\ (doc.kind = "error" /\ doc.status \in {None, Some("INTERNAL")}) =>
           d = <<"**Gemini API Error (">> \o C18_Word(doc.code, "0")
                   \o <<")**\n\n**Status:** ">>
                   \o C18_Word(doc.status, "UNKNOWN") \o <<"\n**Message:** ">>
                   \o C18_Or(doc.message, "No message")
    /\ doc.kind \in {"none", "broken"} => d = raw

C18_Delimited == ~Contains(hist.prefix, "{") /\ ~Contains(hist.suffix, "}")

C19_Received(t) == Flatten([i \in 1..Len(trace.recv[t]) |-> trace.recv[t][i].parts])

\* the parts it handed to the channel as progress events, in order
C19_SentParts(t) ==
    LET events == SelectSeq(trace.sent[t], LAMBDA ev : ev.kind = "Part")
    IN [i \in 1..Len(events) |-> events[i].part]

\* C19: when an invocation makes its Success call, every content part of
\* every chunk it received has been handed to the channel, in arrival order,
\* the textual and the non-textual ones, and the text of the Success is the
\* concatenation, in order, of the textual parts sent, thought or not.
C19_StreamingAccumulation ==
    \A t \in TaskIds :
        (trace.terms[t] # <<>> /\ trace.terms[t][1].kind = "Success") =>
            /\ C19_SentParts(t) = C19_Received(t)
            /\ tasks[t].outbox = <<>>
            /\ trace.terms[t][1].text = ConcatText(TextPartsOf(trace.sent[t]))

\* a stream of a non-textual part, then a thought and an answer, ended in
\* Success with the two texts
C19_Witness ==
    \E t \in TaskIds :
        /\ trace.terms[t] # <<>> /\ trace.terms[t][1].kind = "Success"
        /\ trace.cancel[t] = None
        /\ C19_Received(t) = <<OtherPart, ThoughtAbc, AnswerDef>>
        /\ C19_SentParts(t) = <<OtherPart, ThoughtAbc, AnswerDef>>
        /\ trace.terms[t][1].text = "abcdef"

\* the usage summaries of the chunks and responses received, in arrival order
C20_Usages(t) ==
    LET with == SelectSeq(trace.recv[t], LAMBDA res : res.usage_metadata # None)
    IN [i \in 1..Len(with) |-> with[i].usage_metadata]

\* C20: the usage summary of a Success is the one of the last received chunk
\* that carried one, and is absent when no received chunk carried one; a
\* chunk without usage received later does not erase it.
C20_UsageCapture ==
    \A t \in TaskIds :
        (trace.terms[t] # <<>> /\ trace.terms[t][1].kind = "Success") =>
            trace.terms[t][1].usage =
                IF C20_Usages(t) = <<>> THEN None ELSE Last(C20_Usages(t))

\* a stream whose first chunk carried a usage summary and whose second did
\* not ended in Success with the summary of the first
C20_Witness ==
    \E t \in TaskIds :
        /\ trace.terms[t] # <<>> /\ trace.terms[t][1].kind = "Success"
        /\ Len(trace.recv[t]) = 2
        /\ trace.recv[t][1].usage_metadata = Some("u1")
        /\ trace.recv[t][2].usage_metadata = None
        /\ trace.terms[t][1].usage = Some("u1")

C21_Cancelled(t) == trace.cancel[t] # None /\ trace.cancel[t][1].phase = "blocking"

C21_NoPart(events) == \A i \in 1..Len(events) : events[i].kind # "Part"

\* what holds of an invocation whose cancellation poll won against the
\* blocking call
C21_Outcome(t) ==
    /\ trace.terms[t] = <<SuccessResult(t, tasks[t].index, "", None)>>
    /\ tasks[t].pc = "done"
    /\ trace.recv[t] = <<>>
    /\ C21_NoPart(trace.sent[t]) /\ C21_NoPart(trace.seen[t])
    /\ InRange(messages, tasks[t].index) => messages[tasks[t].index + 1].content = ""
    /\ \A i \in 1..Len(trace.termSeen[t]) : trace.termSeen[t][i] = trace.terms[t][i]

\* C21: when the cancellation poll wins the race against the blocking call,
\* the step clears the flag and the invocation ends with Success carrying
\* empty text and no usage; from then on it has emitted no part event, has
\* received no response, and its turn keeps the empty content.
C21_BlockingCancellation ==
    [][\A t \in TaskIds :
          C21_Cancelled(t)' =>
              /\ C21_Outcome(t)'
              /\ ~C21_Cancelled(t) => ~stop_generating']_vars

\* a blocking invocation was cancelled and its Success was drained
C21_Witness ==
    \E t \in TaskIds :
        /\ C21_Cancelled(t)
        /\ trace.termSeen[t] = <<SuccessResult(t, tasks[t].index, "", None)>>
        /\ ~tasks[t].settings.use_streaming
        /\ ~Last(messages).is_generating /\ ~Last(messages).is_error
        /\ Last(messages).content = ""

\* a turn the claim calls skipped
C22_Skipped(m) == m.is_thought \/ (m.content = "" /\ m.files = <<>>)

\* the log without its skipped turns
C22_Kept == SelectSeq(hist.msgs, LAMBDA m : ~C22_Skipped(m))

\* build_history on the log without its skipped turns, other inputs alike
C22_OfKept ==
    build_history([inv |-> 1, now |-> hist.now], C22_Kept, hist.outcomes,
                  hist.extra_content, hist.public_file_upload, hist.status_channel)

\* two kept turns of one role with only skipped turns between them
C22_Separated(i, j) ==
    /\ i < j - 1
    /\ ~C22_Skipped(hist.msgs[i]) /\ ~C22_Skipped(hist.msgs[j])
    /\ hist.msgs[i].role = hist.msgs[j].role
    /\ \A k \in (i + 1)..(j - 1) : C22_Skipped(hist.msgs[k])

\* C22: the blocks and the conversion calls of build_history are those of the
\* log with its thought turns and its empty turns taken out: a skipped turn
\* adds no part, flushes nothing and changes no role, so the turns around it
\* merge as if they were adjacent.
C22_SkippedTurnsLeaveNoTrace ==
    hist.pc = "out" =>
        /\ hist.out.history = C22_OfKept.history
        /\ hist.out.calls = C22_OfKept.calls

\* two user texts separated by a thought turn of the assistant were merged
\* into one block
C22_Witness ==
    /\ hist.pc = "out"
    /\ Len(hist.msgs) = 3 /\ C22_Separated(1, 3)
    /\ hist.msgs[2].is_thought /\ hist.msgs[2].role # hist.msgs[1].role
    /\ hist.extra_content = None
    /\ hist.out.history =
           <<Content(<<TextPart("u", None), TextPart("u", None)>>, "user")>>

\* the paths of the attachments of the extra turn
C23_ExtraPaths ==
    IF hist.extra_content = None THEN {}
    ELSE {hist.extra_content[1].files[i].path : i \in 1..Len(hist.extra_content[1].files)}

\* a progress event about the attachment at path
C23_About(ev, path) ==
    \/ ev.kind \in {"FileUploading", "FileUploaded"} /\ ev.path = path
    \/ ev.kind = "Status" /\ ev.message = "Processing file: " \o path \o "..."

\* C23: the attachments of the extra turn are converted with upload disabled
\* and no progress event is emitted about them, whatever the upload
\* permission and whether or not a progress sink is supplied.
C23_ExtraTurnStaysLocal ==
    hist.pc = "out" =>
        \A path \in C23_ExtraPaths :
            /\ \A i \in 1..Len(hist.out.calls) :
                   hist.out.calls[i].path = path => ~hist.out.calls[i].upload
            /\ \A i \in 1..Len(hist.out.events) : ~C23_About(hist.out.events[i], path)

\* an extra turn with an attachment was built with upload permitted and a
\* sink supplied: its attachment was converted locally
C23_Witness ==
    /\ hist.pc = "out"
    /\ hist.extra_content # None
    /\ hist.public_file_upload /\ hist.status_channel # None
    /\ hist.outcomes["f3"] = "uploaded"
    /\ \E i \in 1..Len(hist.out.calls) :
           hist.out.calls[i] = [path |-> "f3", upload |-> FALSE]
    /\ Last(hist.out.history) = Content(<<InlinePart("f3"), TextPart("x", None)>>, "user")

\* everything an invocation has emitted as progress, sent or still queued
C24_Emitted(t) == trace.sent[t] \o tasks[t].outbox

C24_IsClear(ev) == ev.kind = "Status" /\ ev.message = ""

\* the event at position c is the one clear-status event of the sequence,
\* targets idx, follows every status and upload event and precedes every part
C24_ClearAt(events, c, idx) ==
    /\ C24_IsClear(events[c]) /\ events[c].idx = idx
    /\ \A i \in 1..Len(events) :
           /\ i < c => events[i].kind \in {"Status", "FileUploading", "FileUploaded"}
                       /\ ~C24_IsClear(events[i])
           /\ i > c => events[i].kind = "Part"

\* C24: build_history called with a progress sink emits exactly one
\* empty-status event for the invocation's turn index, after every Status,
\* FileUploading and FileUploaded event of the build and before any part
\* event of the invocation; called without a sink it emits nothing.
C24_ClearStatusOrdering ==
    /\ \A t \in TaskIds :
           /\ tasks[t].pc \in {"open", "blocking", "stream", "finish"} =>
                  C24_Emitted(t) # <<>>
           /\ C24_Emitted(t) # <<>> =>
                  \E c \in 1..Len(C24_Emitted(t)) :
                      C24_ClearAt(C24_Emitted(t), c, tasks[t].index)
    /\ (hist.pc = "out" /\ hist.status_channel = None) => hist.out.events = <<>>

\* an invocation reported a file, its upload and the end of the build, then
\* a part; and the token count built the same log without a sink
C24_Witness ==
    /\ \E t \in TaskIds :
           /\ Len(trace.sent[t]) = 5
           /\ trace.sent[t][1].kind = "Status" /\ ~C24_IsClear(trace.sent[t][1])
           /\ trace.sent[t][2].kind = "FileUploading"
           /\ trace.sent[t][3].kind = "FileUploaded"
           /\ C24_IsClear(trace.sent[t][4])
           /\ trace.sent[t][5].kind = "Part"
    /\ hist.pc = "out" /\ hist.status_channel = None /\ hist.out.calls # <<>>

\* an attachment whose resolution fails: it is converted and the helper
\* returns an error
C25_Fails(att) == ~Reusable(att, hist.now) /\ hist.outcomes[att.path] = "err"

C25_Surviving(files) == SelectSeq(files, LAMBDA att : ~C25_Fails(att))

\* the log and the extra turn with the failing attachments taken out
C25_MsgsWithout ==
    [i \in 1..Len(hist.msgs) |->
        [hist.msgs[i] EXCEPT !.files = C25_Surviving(hist.msgs[i].files)]]

C25_ExtraWithout ==
    IF hist.extra_content = None THEN None
    ELSE Some([hist.extra_content[1] EXCEPT
                  !.files = C25_Surviving(hist.extra_content[1].files)])

C25_OfWithout ==
    build_history([inv |-> 1, now |-> hist.now], C25_MsgsWithout, hist.outcomes,
                  C25_ExtraWithout, hist.public_file_upload, hist.status_channel)

\* the parts of a history in order, each with the role of its block
C25_RoleParts(history) ==
    Flatten([i \in 1..Len(history) |->
                [j \in 1..Len(history[i].parts[1]) |->
                    [role |-> history[i].role[1], part |-> history[i].parts[1][j]]]])

\* no part of the history was made from the attachment
C25_NoPartOf(att, history) ==
    \A i \in 1..Len(history) : \A j \in 1..Len(history[i].parts[1]) :
        LET part == history[i].parts[1][j]
        IN /\ part.kind = "Inline" => part.path # att.path
           /\ part.kind = "FileData" => part.file_uri # "new:" \o att.path

C25_AllFiles ==
    Flatten([i \in 1..Len(hist.msgs) |-> hist.msgs[i].files])
    \o (IF hist.extra_content = None THEN <<>> ELSE hist.extra_content[1].files)

\* a turn outside the skipping rule that the failures leave without any part
C25_TurnEmptied ==
    \E i \in 1..Len(hist.msgs) :
        /\ ~hist.msgs[i].is_thought /\ hist.msgs[i].content = ""
        /\ hist.msgs[i].files # <<>>
        /\ C25_Surviving(hist.msgs[i].files) = <<>>

C26_SendOf(entry, kind, path, idx) ==
    /\ entry.kind = "send" /\ entry.event.kind = kind
    /\ entry.event.path = path /\ entry.event.idx = idx

\* C26: a FileUploading event is emitted only when a progress sink is
\* supplied and upload is permitted; every FileUploaded event comes after a
\* FileUploading event of the same build for the same path and turn index,
\* and the reference part made from its remote handle is added to the
\* payload right after it, never before.
C26_UploadEventProtocol ==
    hist.pc = "out" =>
        LET order == hist.out.order
        IN \A i \in 1..Len(order) :
               /\ (order[i].kind = "send" /\ order[i].event.kind = "FileUploading") =>
                      hist.status_channel # None /\ hist.public_file_upload
               /\ (order[i].kind = "send" /\ order[i].event.kind = "FileUploaded") =>
                      /\ \E j \in 1..(i - 1) :
                             C26_SendOf(order[j], "FileUploading",
                                        order[i].event.path, order[i].event.idx)
                      /\ order[i].event.file.uri # None =>
                             /\ i < Len(order)
                             /\ order[i + 1] =
                                    [kind |-> "push",
                                     part |-> FileDataPart(order[i].event.file.uri[1],
                                                           order[i].event.file.mime_type[1])]
               /\ (/\ order[i].kind = "push" /\ order[i].part.kind = "FileData"
                   /\ \E path \in Paths : order[i].part.file_uri = "new:" \o path) =>
                      /\ i > 1
                      /\ order[i - 1].kind = "send" /\ order[i - 1].event.kind = "FileUploaded"

\* an attachment was uploaded during a build: processing status, uploading,
\* uploaded, then the reference part
C26_Witness ==
    /\ hist.pc = "out"
    /\ hist.status_channel # None /\ hist.public_file_upload
    /\ \E i \in 1..Len(hist.out.order) :
           /\ i + 3 <= Len(hist.out.order)
           /\ hist.out.order[i].kind = "send" /\ hist.out.order[i].event.kind = "Status"
           /\ hist.out.order[i + 1].kind = "send"
           /\ hist.out.order[i + 1].event.kind = "FileUploading"
           /\ hist.out.order[i + 2].kind = "send"
           /\ hist.out.order[i + 2].event.kind = "FileUploaded"
           /\ hist.out.order[i + 3].kind = "push"
           /\ hist.out.order[i + 3].part.kind = "FileData"

\* the step applies one progress event of invocation t
C27_Applies(t) == Len(trace'.seen[t]) = Len(trace.seen[t]) + 1

\* C27: the step that applies a text part leaves the targeted turn without
\* status; the step that applies a status message sets the status of the
\* targeted turn to its text and changes nothing else in the log.
C27_StatusClearing ==
    [][\A t \in TaskIds :
          C27_Applies(t) =>
              LET ev == Last(trace'.seen[t])
              IN /\ (ev.kind = "Part" /\ ev.part.kind = "Text" /\ InRange(messages, ev.idx)) =>
                        messages'[ev.idx + 1].status_message = None
                 /\ ev.kind = "Status" =>
                        messages' = IF InRange(messages, ev.idx)
                                    THEN [messages EXCEPT
                                             ![ev.idx + 1].status_message = Some(ev.message)]
                                    ELSE messages]_vars

\* the status "Processing file: f1..." of a turn was set by the build, and a
\* text part applied later: the turn shows the text and no status
C27_Witness ==
    \E t \in TaskIds :
        /\ Len(trace.seen[t]) >= 2
        /\ trace.seen[t][1].kind = "Status"
        /\ trace.seen[t][1].message = "Processing file: f1..."
        /\ Last(trace.seen[t]).kind = "Part" /\ Last(trace.seen[t]).part.kind = "Text"
        /\ InRange(messages, tasks[t].index)
        /\ messages[tasks[t].index + 1].status_message = None
        /\ messages[tasks[t].index + 1].content = "def"


\* ---- C28 ----
C28_Empty == compose.chatbox = "" /\ compose.files = <<>>

C28_Starts(t) == tasks[t].pc # "spawned" /\ tasks'[t].pc = "spawned"

C28_Placeholder(m) ==
    /\ m.role = "Assistant"
    /\ m.content = ""
    /\ m.is_generating
    /\ ~m.is_error
    /\ m.files = <<>>

C28_Sent ==
    LET retained == SelectSeq(messages, LAMBDA m : ~m.is_error)
        n == Len(messages')
    IN /\ n = Len(retained) + 2
       /\ SubSeq(messages', 1, n - 2) = retained
       /\ messages'[n - 1].role = "User"
       /\ messages'[n - 1].files = compose.files
       /\ \E ws \in {"", "\n"} : messages'[n - 1].content \o ws = compose.chatbox
       /\ C28_Placeholder(messages'[n])
       /\ compose' = [chatbox |-> "", files |-> <<>>]
       /\ Cardinality({t \in TaskIds : C28_Starts(t)}) = 1
       /\ \A t \in TaskIds : C28_Starts(t) => tasks'[t].index = n - 1

C28_Unchanged ==
    /\ UNCHANGED <<messages, compose, flower>>
    /\ \A t \in TaskIds : ~C28_Starts(t)

C28_Frame ==
    (send_message \/ \E t \in TaskIds : C28_Starts(t))
        => IF C28_Empty THEN C28_Unchanged ELSE C28_Sent

\* C28: send_message with an empty compose box and no pending attachment
\* changes neither the log nor the compose state nor the channel and starts
\* no request; with anything else in the compose state it does send: the
\* error turns are gone, one User turn and one empty generating Assistant
\* placeholder are appended, the compose state is cleared, and exactly one
\* completion starts, targeting the last index.
C28_SendMessageFrame ==
    /\ [][C28_Frame]_vars
    /\ [](ENABLED send_message /\ ~C28_Empty => ENABLED (send_message /\ compose' # compose))

C28_Witness ==
    /\ compose = [chatbox |-> "", files |-> <<>>]
    /\ \E t \in TaskIds : tasks[t].pc = "spawned" /\ tasks[t].index = Len(messages) - 1
    /\ Len(messages) = 5
    /\ \A i \in 1..5 : ~messages[i].is_error
    /\ messages[4].content = "" /\ messages[4].files # <<>>

\* ---- C29 ----
C29_AppliesTextPart ==
    /\ fg = "idle" /\ fg' # "idle"
    /\ flower_active
    /\ flower.chan.kind = "Part" /\ flower.chan.part.kind = "Text"

\* C29: whenever the consumer applies a text part, the turn log is not
\* empty, whatever the user removed, retried or regenerated while the
\* completion was in flight.
C29_TrailingTurnExists == [][C29_AppliesTextPart => messages # <<>>]_vars

\* ---- C30 ----
C30_Calls(t) == trace.terms[t]

C30_OncePerActivation == \A t \in TaskIds : Len(C30_Calls(t)) <= 1

C30_Drained(t) == trace.termSeen[t]

\* a terminal call whose result was replaced before the consumer took it
C30_Overwritten ==
    \E t \in TaskIds : \E i \in 1..Len(C30_Calls(t)) :
        /\ flower.result # C30_Calls(t)[i]
        /\ \A j \in 1..Len(C30_Drained(t)) : C30_Drained(t)[j] # C30_Calls(t)[i]

\* C30: a background task makes at most one terminal call (success or
\* error) per activation, and every terminal result made is either still in
\* the channel or was drained by the consumer: none is overwritten or lost.
C30_TerminalCallsAreTerminal == C30_OncePerActivation /\ ~C30_Overwritten

\* ---- C31 ----
C31_InFlight(t) == tasks[t].pc \notin {"idle", "retired"} /\ ~Over(t)

C31_Settled ==
    /\ fg = "idle"
    /\ \E t \in TaskIds : Over(t)
    /\ \A t \in TaskIds : ~C31_InFlight(t)

\* C31: once the terminal outcome of an invocation has been drained and no
\* other completion is in flight, no turn of the log is marked generating,
\* whichever index the invocation was started on.
C31_NoTurnLeftGenerating ==
    C31_Settled => \A i \in 1..Len(messages) : ~messages[i].is_generating

\* ---- C32 ----
C32_AppliesTextPart ==
    /\ fg = "idle" /\ fg' = "extracted"
    /\ flower.chan.kind = "Part" /\ flower.chan.part.kind = "Text"

C32_TextChanged(i) ==
    /\ i <= Len(messages')
    /\ \/ messages'[i].content # messages[i].content
       \/ messages'[i].is_thought # messages[i].is_thought

\* C32: applying a text part changes the content or the thought flag of
\* Assistant turns only, never of a User turn.
C32_TextNeverModifiesUserTurn ==
    [][C32_AppliesTextPart =>
          \A i \in 1..Len(messages) : C32_TextChanged(i) => messages[i].role = "Assistant"]_vars

\* ---- C33 ----
\* the turn the invocation was started for and the turns split from it,
\* and any turn the step itself appends
C33_Own(t) == trace.own[t] \cup (Len(messages) + 1)..Len(messages')

C33_Applies(t) ==
    \/ fg = "idle" /\ fg' = "extracted" /\ flower.chan.kind # "None" /\ flower.chan.inv = t
    \/ fg = "extracted" /\ fg' = "idle" /\ flower.result.kind # "None" /\ flower.result.inv = t

\* C33: every progress event and every terminal outcome of an invocation
\* changes only the turn the invocation was started for (or the answer turn
\* split from it), wherever deletes and retries have moved that turn.
C33_IndexStability ==
    [][\A t \in TaskIds : C33_Applies(t) => Changed(messages, messages') \subseteq C33_Own(t)]_vars

\* ---- C34 ----
C34_Drained ==
    /\ fg = "idle"
    /\ \E t \in TaskIds : Over(t)
    /\ \A t \in TaskIds : tasks[t].pc \in {"idle", "retired"} \/ Over(t)

C34_Uploading(i, k) == messages[i].files[k].state.tag = "Uploading"

\* C34: when the terminal outcome of the invocation has been drained (and
\* nothing else is in flight), no attachment is in the Uploading state any
\* more, whatever the conversion of the file returned.
C34_AttachmentLifecycle ==
    C34_Drained =>
        \A i \in 1..Len(messages) : \A k \in 1..Len(messages[i].files) : ~C34_Uploading(i, k)

\* ---- C35 ----
C35_Payload == hist.out.history

\* C35: no two adjacent blocks of the list build_history returns have the
\* same role.
C35_RolesAlternate ==
    hist.pc = "out" =>
        \A i \in 1..(Len(C35_Payload) - 1) : C35_Payload[i].role # C35_Payload[i + 1].role

\* ---- C36 ----
\* the turn is skipped by the loop or contributes no part to the buffer
C36_NoPart(m) == C5_Skipped(m) \/ C5_TurnParts(m) = <<>>

\* C36: every block build_history returns has a role and at least one part,
\* and a log whose turns are all skipped or resolve to no part, built
\* without extra content, yields the empty list.
C36_BlocksNonEmpty ==
    hist.pc = "out" =>
        /\ \A i \in 1..Len(hist.out.history) :
               /\ hist.out.history[i].role # None
               /\ hist.out.history[i].parts # None
               /\ hist.out.history[i].parts[1] # <<>>
        /\ ((\A j \in 1..Len(hist.msgs) : C36_NoPart(hist.msgs[j]))
                /\ hist.extra_content = None)
            => hist.out.history = <<>>

\* a log of two turns, one skipped and one whose only attachment fails to
\* resolve, was built without extra content into the empty list
C36_Witness ==
    /\ hist.pc = "out"
    /\ hist.extra_content = None
    /\ Len(hist.msgs) = 2
    /\ \E j \in 1..2 : ~C5_Skipped(hist.msgs[j]) /\ C5_TurnParts(hist.msgs[j]) = <<>>
    /\ \E j \in 1..2 : C5_Skipped(hist.msgs[j])
    /\ hist.out.history = <<>>

\* ---- C37 ----
\* C37: every turn marked as an error turn has index at least 1 (position at
\* least 2 of the log), so that retry finds a preceding turn.
C37_RetryHasPrecedingTurn ==
    \A i \in 1..Len(messages) : messages[i].is_error => i >= 2

\* ---- C38 ----
\* the foreground applies a text part of the stream
C38_AppliesTextPart ==
    /\ fg = "idle" /\ fg' = "extracted"
    /\ flower.chan.kind = "Part" /\ flower.chan.part.kind = "Text"

\* the turn holds answer text: every assistant turn starts empty, an error
\* text is written with is_error, and a thought part marks its turn
C38_HasAnswerText(m) ==
    m.role = "Assistant" /\ ~m.is_thought /\ ~m.is_error /\ m.content # ""

\* C38: a turn that has had non-thought text appended to it is never marked
\* as a thought turn by a later text part, whatever the order of the parts.
C38_AnswerNeverBecomesThought ==
    [][C38_AppliesTextPart =>
          \A i \in 1..Len(messages) :
              C38_HasAnswerText(messages[i]) => ~messages'[i].is_thought]_vars

\* ---- C39 ----
\* the invocation has been spawned and has not ended
C39_InFlight(t) == tasks[t].pc \notin {"idle", "retired", "done", "panicked"}

\* C39: once the cancel flag is set while a completion is in flight, the
\* completion eventually emits its terminal outcome and the flag is
\* eventually cleared, even if the network never answers.
C39_CancellationLiveness ==
    \A t \in TaskIds :
        /\ (stop_generating /\ C39_InFlight(t)) ~> ~C39_InFlight(t)
        /\ (stop_generating /\ C39_InFlight(t)) ~> ~stop_generating

\* ---- C40 ----
\* the contents of the turns at the positions ps, concatenated in log order
RECURSIVE C40_Concat(_)
C40_Concat(ps) ==
    IF ps = {} THEN ""
    ELSE LET p == CHOOSE q \in ps : \A r \in ps : q <= r
         IN messages[p].content \o C40_Concat(ps \ {p})

\* the Success of the invocation has been drained
C40_Drained(t) == trace.termSeen[t] # <<>> /\ trace.termSeen[t][1].kind = "Success"

\* C40: once the Success of a completion has been drained, the contents of
\* the turns it filled (the placeholder and the answer turns split from it),
\* concatenated in order, are the accumulated text the Success carries.
C40_ProducerConsumerAgreement ==
    \A t \in TaskIds :
        C40_Drained(t) => C40_Concat(trace.own[t]) = trace.termSeen[t][1].text

\* a drained Success carrying the text of a thought part and of an answer
\* part, whose turns are the thought turn and the answer turn split from it
C40_Witness ==
    \E t \in TaskIds :
        /\ C40_Drained(t)
        /\ trace.termSeen[t][1].text = "abcdef"
        /\ Cardinality(trace.own[t]) = 2
        /\ \E p \in trace.own[t] : messages[p].is_thought /\ messages[p].content = "abc"

====
